---- MODULE Spec2Model ----
(***************************************************************************)
(* Build monitoring of az-bake (src/bake/azext_bake/_ci.py):               *)
(*   wait_for_builds    the fan-out poller over a list of image builds     *)
(*   follow_image_logs  the single-image follower                          *)
(*   _stream_log_delta  the incremental log streamer                       *)
(*   poll_build, _get_container_state, _fetch_logs, _tail_lines            *)
(*   report_results     the reporter (console, annotations, summary, keys) *)
(*   emit_github_annotation, write_github_output, write_github_summary     *)
(* and, of the command layer:                                              *)
(*   templates_version_validator (_validators.py)                          *)
(*   get_release_asset (_github_utils.py)                                  *)
(*                                                                         *)
(* Text is a sequence of character codes.  Optional values (Python None)   *)
(* are sequences of length 0 (None) or 1 (a value).                        *)
(***************************************************************************)
EXTENDS Integers, Sequences, FiniteSets, TLC

\* ------------------------------------------------------------------ bounds

\* Longest image_names list handed to wait_for_builds.
MaxJobs == 2
\* Longest log text the container service returns for one image.
MaxLog == 2
\* Longest text / largest previous_length of a direct _stream_log_delta call.
MaxText == 2
\* Longest results list handed to report_results.
MaxResults == 2
\* Most calls a caller makes to write_github_output / write_github_summary.
MaxCalls == 2
\* Longest text, and largest line count, of a direct _tail_lines call.
MaxTail == 3
\* Most remote responses given to the monitor and the follower side by side.
MaxRounds == 3

\* --------------------------------------------------------------- constants

TERMINATED == "Terminated"
LOG_TAIL_LINES == 50
\* _github_utils.py
TRIES == 3

Names == {"img1", "img2"}

None == <<>>
Some(x) == <<x>>

\* The newline character.
LF == 10

\* Characters str.strip() removes, and characters str.splitlines() breaks at.
IsSpace(c) == c \in {9, 10, 11, 12, 13, 28, 29, 30, 31, 32, 133, 160}
IsLineBreak(c) == c \in {10, 11, 12, 13, 28, 29, 30, 133, 8232, 8233}

\* ------------------------------------------------------------ BuildResult

BuildResult(image_name, state, exit_code, detail_status, logs_tail) ==
    [image_name |-> image_name, state |-> state, exit_code |-> exit_code,
     start_time |-> None, finish_time |-> None,
     detail_status |-> detail_status, logs_tail |-> logs_tail,
     portal_url |-> ""]

succeeded(r) == r.exit_code = Some(0)

failedNotZero(r) == r.exit_code # Some(0)

failed(r) == r.exit_code # None /\ r.exit_code # Some(0)

\* -------------------------------------------------------- pure functions

\* x or default, for an optional string: None and '' both give the default.
OrStr(opt, default) == IF opt = None \/ opt = Some("") THEN default ELSE opt[1]

GetContainerStateLast(cg) ==
    IF cg.containers = <<>>
    THEN <<None, None, None>>
    ELSE LET instance_view == cg.containers[Len(cg.containers)].instance_view
         IN IF instance_view = None \/ instance_view[1].current_state = None
            THEN <<cg.provisioning_state, None, None>>
            ELSE LET current == instance_view[1].current_state[1]
                 IN <<current.state, current.exit_code, current.detail_status>>

\* _get_container_state: (state, exit_code, detail_status), each optional.
\* A container group is [containers, provisioning_state]; a container is
\* [name, instance_view]; an instance view is [current_state]; a current
\* state is [state, exit_code, detail_status, start_time, finish_time].
GetContainerState(cg) ==
    IF cg.containers = <<>>
    THEN <<None, None, None>>
    ELSE LET instance_view == cg.containers[1].instance_view
         IN IF instance_view = None \/ instance_view[1].current_state = None
            THEN <<cg.provisioning_state, None, None>>
            ELSE LET current == instance_view[1].current_state[1]
                 IN <<current.state, current.exit_code, current.detail_status>>

\* _fetch_logs: the log client's answer is [raises, content]; any failure
\* and an absent content give ''.
FetchLogs(resp) ==
    IF resp.raises THEN <<>>
    ELSE IF resp.content = None THEN <<>> ELSE resp.content[1]

RECURSIVE LStrip(_)
LStrip(s) == IF s # <<>> /\ IsSpace(Head(s)) THEN LStrip(Tail(s)) ELSE s

RECURSIVE RStrip(_)
RStrip(s) ==
    IF s # <<>> /\ IsSpace(s[Len(s)]) THEN RStrip(SubSeq(s, 1, Len(s) - 1)) ELSE s

Strip(s) == RStrip(LStrip(s))

RECURSIVE SplitLinesRec(_, _, _)
SplitLinesRec(s, cur, acc) ==
    IF s = <<>>
    THEN (IF cur = <<>> THEN acc ELSE Append(acc, cur))
    ELSE IF IsLineBreak(Head(s))
         THEN LET rest == IF Head(s) = 13 /\ Len(s) > 1 /\ s[2] = LF
                          THEN Tail(Tail(s)) ELSE Tail(s)
              IN SplitLinesRec(rest, <<>>, Append(acc, cur))
         ELSE SplitLinesRec(Tail(s), Append(cur, Head(s)), acc)

SplitLines(s) == SplitLinesRec(s, <<>>, <<>>)

FirstN(lines, n) == IF n >= Len(lines) THEN lines ELSE SubSeq(lines, 1, n)

\* lines[-n:] for n >= 0 (lines[-0:] is the whole list).
LastN(lines, n) ==
    IF n = 0 \/ n >= Len(lines) THEN lines
    ELSE SubSeq(lines, Len(lines) - n + 1, Len(lines))

RECURSIVE JoinLines(_)
JoinLines(lines) ==
    IF lines = <<>> THEN <<>>
    ELSE IF Len(lines) = 1 THEN lines[1]
    ELSE lines[1] \o <<LF>> \o JoinLines(Tail(lines))

\* _tail_lines
TailLines(content, n) == JoinLines(LastN(SplitLines(Strip(content)), n))

\* What _stream_log_delta writes: the group markers (print) and the delta's
\* characters (sys.stdout.write), one item each.
GroupMarker(image_name) == [kind |-> "group", name |-> image_name, c |-> 0]
EndGroupMarker == [kind |-> "endgroup", name |-> "", c |-> 0]
CharItem(ch) == [kind |-> "char", name |-> "", c |-> ch]

\* print('::group::Build progress')
ProgressGroup == [kind |-> "group", name |-> "Build progress", c |-> 0]

CharItems(text) == [k \in 1..Len(text) |-> CharItem(text[k])]

\* The characters among written items, in order.
RECURSIVE Chars(_)
Chars(items) ==
    IF items = <<>> THEN <<>>
    ELSE (IF Head(items).kind = "char" THEN <<Head(items).c>> ELSE <<>>)
         \o Chars(Tail(items))

\* The group markers among written items, in order.
RECURSIVE Markers(_)
Markers(items) ==
    IF items = <<>> THEN <<>>
    ELSE (IF Head(items).kind # "char" THEN <<Head(items)>> ELSE <<>>)
         \o Markers(Tail(items))

\* Groups opened less groups closed by a sequence of markers.
RECURSIVE Net(_)
Net(ms) ==
    IF ms = <<>> THEN 0
    ELSE (IF Head(ms).kind = "group" THEN 1 ELSE 0 - 1) + Net(Tail(ms))

\* full_content[previous_length:]
SliceFrom(text, start) ==
    IF start >= Len(text) THEN <<>> ELSE SubSeq(text, start + 1, Len(text))

\* Mutants of _stream_log_delta (used to test the claims' formulas).
StreamLogDeltaNoGuard(image_name, full_content, previous_length, use_groups) ==
    [ret |-> Len(full_content),
     out |-> CharItems(SliceFrom(full_content, previous_length))]

StreamLogDeltaWholeText(image_name, full_content, previous_length, use_groups) ==
    IF Len(full_content) <= previous_length
    THEN [ret |-> previous_length, out |-> <<>>]
    ELSE [ret |-> Len(full_content), out |-> CharItems(full_content)]

StreamLogDeltaStrictLess(image_name, full_content, previous_length, use_groups) ==
    IF Len(full_content) < previous_length
    THEN [ret |-> previous_length, out |-> <<>>]
    ELSE LET delta == SliceFrom(full_content, previous_length)
         IN [ret |-> Len(full_content),
             out |-> (IF use_groups THEN <<GroupMarker(image_name)>> ELSE <<>>)
                     \o CharItems(delta)
                     \o (IF use_groups THEN <<EndGroupMarker>> ELSE <<>>)]

StreamLogDeltaReturnsDeltaLen(image_name, full_content, previous_length, use_groups) ==
    IF Len(full_content) <= previous_length
    THEN [ret |-> previous_length, out |-> <<>>]
    ELSE LET delta == SliceFrom(full_content, previous_length)
         IN [ret |-> Len(delta),
             out |-> (IF use_groups THEN <<GroupMarker(image_name)>> ELSE <<>>)
                     \o CharItems(delta)
                     \o (IF use_groups THEN <<EndGroupMarker>> ELSE <<>>)]

\* _stream_log_delta: ret is the returned length, out what was written.
StreamLogDelta(image_name, full_content, previous_length, use_groups) ==
    IF Len(full_content) <= previous_length
    THEN [ret |-> previous_length, out |-> <<>>]
    ELSE LET delta == SliceFrom(full_content, previous_length)
         IN [ret |-> Len(full_content),
             out |-> (IF use_groups THEN <<GroupMarker(image_name)>> ELSE <<>>)
                     \o CharItems(delta)
                     \o (IF use_groups THEN <<EndGroupMarker>> ELSE <<>>)]

PollBuildEmptyTail(image_name, cg, logresp) ==
    LET st == GetContainerState(cg)
        logs == FetchLogs(logresp)
        result == BuildResult(image_name,
                              OrStr(st[1], OrStr(cg.provisioning_state, "Unknown")),
                              st[2],
                              OrStr(st[3], ""),
                              <<>>)
        instance_view == IF cg.containers # <<>>
                         THEN cg.containers[1].instance_view ELSE None
    IN IF instance_view # None /\ instance_view[1].current_state # None
       THEN LET cs == instance_view[1].current_state[1]
            IN <<[result EXCEPT !.start_time = cs.start_time,
                                !.finish_time = cs.finish_time], logs>>
       ELSE <<result, logs>>

\* poll_build, given the answers of the two clients: (result, logs).
PollBuild(image_name, cg, logresp) ==
    LET st == GetContainerState(cg)
        logs == FetchLogs(logresp)
        result == BuildResult(image_name,
                              OrStr(st[1], OrStr(cg.provisioning_state, "Unknown")),
                              st[2],
                              OrStr(st[3], ""),
                              TailLines(logs, LOG_TAIL_LINES))
        instance_view == IF cg.containers # <<>>
                         THEN cg.containers[1].instance_view ELSE None
    IN IF instance_view # None /\ instance_view[1].current_state # None
       THEN LET cs == instance_view[1].current_state[1]
            IN <<[result EXCEPT !.start_time = cs.start_time,
                                !.finish_time = cs.finish_time], logs>>
       ELSE <<result, logs>>

\* ------------------------------------------------------------------- text

\* The characters of the string literals of _ci.py and of the strings used as
\* inputs (ord of each character).
Codes(s) ==
    CASE s = "img1" -> <<105, 109, 103, 49>>
      [] s = "img2" -> <<105, 109, 103, 50>>
      [] s = ": build " -> <<58, 32, 98, 117, 105, 108, 100, 32>>
      [] s = "succeeded" -> <<115, 117, 99, 99, 101, 101, 100, 101, 100>>
      [] s = "FAILED (exit code " ->
           <<70, 65, 73, 76, 69, 68, 32, 40, 101, 120, 105, 116, 32, 99,
             111, 100, 101, 32>>
      [] s = ")" -> <<41>>
      [] s = "None" -> <<78, 111, 110, 101>>
      [] s = "Error polling " ->
           <<69, 114, 114, 111, 114, 32, 112, 111, 108, 108, 105, 110, 103,
             32>>
      [] s = ": " -> <<58, 32>>
      [] s = "error" -> <<101, 114, 114, 111, 114>>
      [] s = "Waiting for " ->
           <<87, 97, 105, 116, 105, 110, 103, 32, 102, 111, 114, 32>>
      [] s = " build(s): " ->
           <<32, 98, 117, 105, 108, 100, 40, 115, 41, 58, 32>>
      [] s = ", " -> <<44, 32>>
      [] s = "" -> <<>>
      [] s = "::" -> <<58, 58>>
      [] s = " title=" -> <<32, 116, 105, 116, 108, 101, 61>>
      [] s = "%0A" -> <<37, 48, 65>>
      [] s = "=" -> <<61>>
      [] s = "," -> <<44>>
      [] s = "-" -> <<45>>
      [] s = "?" -> <<63>>
      [] s = " " -> <<32>>
      [] s = "  " -> <<32, 32>>
      [] s = "." -> <<46>>
      [] s = "notice" -> <<110, 111, 116, 105, 99, 101>>
      [] s = "warning" -> <<119, 97, 114, 110, 105, 110, 103>>
      [] s = "Build failed with exit code " ->
           <<66, 117, 105, 108, 100, 32, 102, 97, 105, 108, 101, 100, 32,
             119, 105, 116, 104, 32, 101, 120, 105, 116, 32, 99, 111, 100,
             101, 32>>
      [] s = "Last " -> <<76, 97, 115, 116, 32>>
      [] s = " lines:" -> <<32, 108, 105, 110, 101, 115, 58>>
      [] s = "(no logs available)" ->
           <<40, 110, 111, 32, 108, 111, 103, 115, 32, 97, 118, 97, 105,
             108, 97, 98, 108, 101, 41>>
      [] s = " build failed" ->
           <<32, 98, 117, 105, 108, 100, 32, 102, 97, 105, 108, 101, 100>>
      [] s = "Build completed successfully." ->
           <<66, 117, 105, 108, 100, 32, 99, 111, 109, 112, 108, 101, 116,
             101, 100, 32, 115, 117, 99, 99, 101, 115, 115, 102, 117, 108,
             108, 121, 46>>
      [] s = " build succeeded" ->
           <<32, 98, 117, 105, 108, 100, 32, 115, 117, 99, 99, 101, 101,
             100, 101, 100>>
      [] s = "BUILD RESULTS" ->
           <<66, 85, 73, 76, 68, 32, 82, 69, 83, 85, 76, 84, 83>>
      [] s = " (exit code " ->
           <<32, 40, 101, 120, 105, 116, 32, 99, 111, 100, 101, 32>>
      [] s = "## Build Results" ->
           <<35, 35, 32, 66, 117, 105, 108, 100, 32, 82, 101, 115, 117, 108,
             116, 115>>
      [] s = "| Image | Status | Exit Code | Details |" ->
           <<124, 32, 73, 109, 97, 103, 101, 32, 124, 32, 83, 116, 97, 116,
             117, 115, 32, 124, 32, 69, 120, 105, 116, 32, 67, 111, 100,
             101, 32, 124, 32, 68, 101, 116, 97, 105, 108, 115, 32, 124>>
      [] s = "|-------|--------|-----------|---------|" ->
           <<124, 45, 45, 45, 45, 45, 45, 45, 124, 45, 45, 45, 45, 45, 45,
             45, 45, 124, 45, 45, 45, 45, 45, 45, 45, 45, 45, 45, 45, 124,
             45, 45, 45, 45, 45, 45, 45, 45, 45, 124>>
      [] s = ":white_check_mark: Succeeded" ->
           <<58, 119, 104, 105, 116, 101, 95, 99, 104, 101, 99, 107, 95,
             109, 97, 114, 107, 58, 32, 83, 117, 99, 99, 101, 101, 100, 101,
             100>>
      [] s = ":x: Failed" -> <<58, 120, 58, 32, 70, 97, 105, 108, 101, 100>>
      [] s = ":grey_question: Unknown" ->
           <<58, 103, 114, 101, 121, 95, 113, 117, 101, 115, 116, 105, 111,
             110, 58, 32, 85, 110, 107, 110, 111, 119, 110>>
      [] s = "[Portal](" -> <<91, 80, 111, 114, 116, 97, 108, 93, 40>>
      [] s = "| " -> <<124, 32>>
      [] s = " | " -> <<32, 124, 32>>
      [] s = " |" -> <<32, 124>>
      [] s = "### Failure Logs" ->
           <<35, 35, 35, 32, 70, 97, 105, 108, 117, 114, 101, 32, 76, 111,
             103, 115>>
      [] s = "<details><summary>" ->
           <<60, 100, 101, 116, 97, 105, 108, 115, 62, 60, 115, 117, 109,
             109, 97, 114, 121, 62>>
      [] s = "</summary>" -> <<60, 47, 115, 117, 109, 109, 97, 114, 121, 62>>
      [] s = "</details>" -> <<60, 47, 100, 101, 116, 97, 105, 108, 115, 62>>
      [] s = "build_result" ->
           <<98, 117, 105, 108, 100, 95, 114, 101, 115, 117, 108, 116>>
      [] s = "failure" -> <<102, 97, 105, 108, 117, 114, 101>>
      [] s = "success" -> <<115, 117, 99, 99, 101, 115, 115>>
      [] s = "unknown" -> <<117, 110, 107, 110, 111, 119, 110>>
      [] s = "failed_images" ->
           <<102, 97, 105, 108, 101, 100, 95, 105, 109, 97, 103, 101, 115>>
      [] s = "succeeded_images" ->
           <<115, 117, 99, 99, 101, 101, 100, 101, 100, 95, 105, 109, 97,
             103, 101, 115>>
      [] s = "Terminated" ->
           <<84, 101, 114, 109, 105, 110, 97, 116, 101, 100>>
      [] s = "Running" -> <<82, 117, 110, 110, 105, 110, 103>>
      [] s = "Unknown" -> <<85, 110, 107, 110, 111, 119, 110>>
      [] s = "Pending" -> <<80, 101, 110, 100, 105, 110, 103>>
      [] s = "Succeeded" -> <<83, 117, 99, 99, 101, 101, 100, 101, 100>>
      [] s = "https://portal/img1" ->
           <<104, 116, 116, 112, 115, 58, 47, 47, 112, 111, 114, 116, 97,
             108, 47, 105, 109, 103, 49>>
      [] s = "key" -> <<107, 101, 121>>
      [] s = "value" -> <<118, 97, 108, 117, 101>>
      [] s = "Waiting for builds to complete..." ->
           <<87, 97, 105, 116, 105, 110, 103, 32, 102, 111, 114, 32, 98,
             117, 105, 108, 100, 115, 32, 116, 111, 32, 99, 111, 109, 112,
             108, 101, 116, 101, 46, 46, 46>>
      [] s = "Following logs for " ->
           <<70, 111, 108, 108, 111, 119, 105, 110, 103, 32, 108, 111, 103,
             115, 32, 102, 111, 114, 32>>
      [] s = "..." -> <<46, 46, 46>>
      [] s = ": build succeeded" ->
           <<58, 32, 98, 117, 105, 108, 100, 32, 115, 117, 99, 99, 101, 101,
             100, 101, 100>>
      [] s = ": build FAILED (exit code " ->
           <<58, 32, 98, 117, 105, 108, 100, 32, 70, 65, 73, 76, 69, 68, 32,
             40, 101, 120, 105, 116, 32, 99, 111, 100, 101, 32>>
      [] s = "  Detail: " -> <<32, 32, 68, 101, 116, 97, 105, 108, 58, 32>>
      [] s = "Completed" -> <<67, 111, 109, 112, 108, 101, 116, 101, 100>>
      [] s = "Error" -> <<69, 114, 114, 111, 114>>
      [] s = "t.json" -> <<116, 46, 106, 115, 111, 110>>
      [] s = "V1.0.0" -> <<86, 49, 46, 48, 46, 48>>
      [] s = "v1.0.0" -> <<118, 49, 46, 48, 46, 48>>
      [] s = "1.0" -> <<49, 46, 48>>
      [] s = "https://x/templates.json" ->
           <<104, 116, 116, 112, 115, 58, 47, 47, 120, 47, 116, 101, 109,
             112, 108, 97, 116, 101, 115, 46, 106, 115, 111, 110>>
      [] s = "not a url" -> <<110, 111, 116, 32, 97, 32, 117, 114, 108>>
      [] s = "https://" -> <<104, 116, 116, 112, 115, 58, 47, 47>>
      [] s = "http://" -> <<104, 116, 116, 112, 58, 47, 47>>
      [] s = "https://github.com/rogerbestmsft/az-bake/releases/download/" ->
           <<104, 116, 116, 112, 115, 58, 47, 47, 103, 105, 116, 104, 117,
             98, 46, 99, 111, 109, 47, 114, 111, 103, 101, 114, 98, 101,
             115, 116, 109, 115, 102, 116, 47, 97, 122, 45, 98, 97, 107,
             101, 47, 114, 101, 108, 101, 97, 115, 101, 115, 47, 100, 111,
             119, 110, 108, 111, 97, 100, 47>>
      [] s = "/templates.json" ->
           <<47, 116, 101, 109, 112, 108, 97, 116, 101, 115, 46, 106, 115,
             111, 110>>

\* str(n) for an integer
RECURSIVE StrNat(_)
StrNat(n) == IF n < 10 THEN <<48 + n>> ELSE StrNat(n \div 10) \o <<48 + (n % 10)>>

StrInt(n) == IF n < 0 THEN <<45>> \o StrNat(0 - n) ELSE StrNat(n)

\* str(x) for an optional integer: f'{r.exit_code}'
StrOptInt(opt) == IF opt = None THEN Codes("None") ELSE StrInt(opt[1])

\* The icons of the console summary, and the code fence of the step summary.
CheckMark == <<10003>>
BallotX == <<10007>>
Fence == <<96, 96, 96>>

\* c * n
RECURSIVE Repeat(_, _)
Repeat(c, n) == IF n = 0 THEN <<>> ELSE <<c>> \o Repeat(c, n - 1)

\* sep.join(texts)
RECURSIVE Join(_, _)
Join(sep, texts) ==
    IF texts = <<>> THEN <<>>
    ELSE IF Len(texts) = 1 THEN texts[1]
    ELSE texts[1] \o sep \o Join(sep, Tail(texts))

\* The number of newlines of a text.
RECURSIVE CountLF(_)
CountLF(text) ==
    IF text = <<>> THEN 0
    ELSE (IF Head(text) = LF THEN 1 ELSE 0) + CountLF(Tail(text))

\* ------------------------------------------------------ the GitHub writers

ReplaceFirstNewline(message) ==
    IF \E k \in DOMAIN message : message[k] = LF
    THEN LET k == CHOOSE j \in DOMAIN message :
                      message[j] = LF /\ \A i \in 1..(j - 1) : message[i] # LF
         IN SubSeq(message, 1, k - 1) \o Codes("%0A")
            \o SubSeq(message, k + 1, Len(message))
    ELSE message

\* message.replace('\n', '%0A')
RECURSIVE ReplaceNewlines(_)
ReplaceNewlines(message) ==
    IF message = <<>> THEN <<>>
    ELSE (IF Head(message) = LF THEN Codes("%0A") ELSE <<Head(message)>>)
         \o ReplaceNewlines(Tail(message))

\* emit_github_annotation: what its print writes (print adds the newline).
\* The title is an optional text; None and '' give no title part.
EmitGithubAnnotation(level, message, title) ==
    LET title_part == IF title # None /\ title[1] # <<>>
                      THEN Codes(" title=") \o title[1] ELSE <<>>
        safe_msg == ReplaceNewlines(message)
    IN Codes("::") \o level \o title_part \o Codes("::") \o safe_msg \o <<LF>>

\* ---------------------------------------------------------------- inputs

\* Answers of the container-group client: one per branch of
\* _get_container_state, and per outcome of a terminated container.
CurrentState(state, exit_code, detail_status, finish_time) ==
    [state |-> Some(state), exit_code |-> exit_code,
     detail_status |-> detail_status,
     start_time |-> Some("t1"), finish_time |-> finish_time]

Container(instance_view) == [name |-> "container", instance_view |-> instance_view]

GroupWith(current_state) ==
    [containers |-> <<Container(Some([current_state |-> Some(current_state)]))>>,
     provisioning_state |-> Some("Succeeded")]

ContainerGroups ==
    { [containers |-> <<>>, provisioning_state |-> None],
      [containers |-> <<Container(None)>>, provisioning_state |-> Some("Pending")],
      [containers |-> <<Container(Some([current_state |-> None]))>>,
       provisioning_state |-> Some("Pending")],
      GroupWith(CurrentState("Running", None, None, None)),
      GroupWith(CurrentState(TERMINATED, Some(0), Some("Completed"), Some("t2"))),
      GroupWith(CurrentState(TERMINATED, Some(1), Some("Error"), Some("t2"))),
      GroupWith(CurrentState(TERMINATED, None, None, None)) }

\* The log of an image only grows by appending: it is a prefix of one stream
\* per image whose characters tell the position (every second one a newline).
LogChar(name, k) ==
    IF k % 2 = 0 THEN LF ELSE (IF name = "img1" THEN 100 ELSE 200) + k

LogText(name, len) == [k \in 1..len |-> LogChar(name, k)]

\* Answers of the log client: a failure, no content, or any prefix of the log
\* (a fetch may return less than an earlier one did).
LogResponses(name) ==
    { [raises |-> TRUE, content |-> None], [raises |-> FALSE, content |-> None] }
    \cup { [raises |-> FALSE, content |-> Some(LogText(name, len))] : len \in 0..MaxLog }

\* The portal_urls argument (an optional dict): a dict with a URL for img1 and
\* none for img2, so that portal_urls.get takes both branches.
PortalUrlArgs == { Some([n \in {"img1"} |-> "https://portal/img1"]) }

\* What poll_build can return for an image: (result, logs) for every answer of
\* the two clients.
PollOutcomes ==
    [n \in Names |->
        { PollBuild(n, cg, logresp) : cg \in ContainerGroups, logresp \in LogResponses(n) }]

ShortLogOutcomes ==
    [n \in Names |->
        { PollBuild(n, cg, [raises |-> FALSE, content |-> Some(LogText(n, 1))]) :
            cg \in ContainerGroups }]

\* os.environ restricted to the settings _ci.py reads; None is an unset one.
NoEnv ==
    [GITHUB_ACTIONS |-> None, GITHUB_ACTION |-> None,
     GITHUB_OUTPUT |-> None, GITHUB_STEP_SUMMARY |-> None]

\* The environments wait_for_builds is run in: outside and inside a workflow.
MonitorEnvs == { NoEnv, [NoEnv EXCEPT !.GITHUB_ACTIONS = Some("true")] }

\* The files the sink settings can name, before anything is appended.
Paths == {"out.txt", "summary.md"}

NoFiles == [p \in Paths |-> <<>>]

NoReport == [results |-> <<>>, in_github |-> FALSE, failed |-> <<>>,
             succeeded |-> <<>>, returned |-> None]

NoPoll == [image_name |-> "", group |-> None, logresp |-> None,
           st |-> None, logs |-> None, outcome |-> None]

\* Answers of the container-group client to a direct poll_build: those above,
\* a group of two containers, a current state without a state, and a group
\* without instance view and without provisioning state.
PollGroups ==
    ContainerGroups
    \cup { [containers |->
              << Container(Some([current_state |->
                     Some(CurrentState("Running", None, None, None))])),
                 Container(Some([current_state |->
                     Some(CurrentState(TERMINATED, Some(1), Some("Error"), Some("t2")))])) >>,
            provisioning_state |-> Some("Succeeded")],
           GroupWith([state |-> None, exit_code |-> None, detail_status |-> None,
                      start_time |-> None, finish_time |-> None]),
           [containers |-> <<Container(None)>>, provisioning_state |-> None] }

\* The results handed to report_results: succeeded, failed with and without a
\* captured tail, terminated without exit code, still running, and exit codes
\* under state labels other than Terminated.
WithPortal(r, url) == [r EXCEPT !.portal_url = url]

ReportInputs ==
    { WithPortal(BuildResult("img1", TERMINATED, Some(0), "Completed", LogText("img1", 1)),
                 "https://portal/img1"),
      BuildResult("img2", TERMINATED, Some(1), "Error", LogText("img2", 3)),
      WithPortal(BuildResult("img2", TERMINATED, Some(2), "Error", <<>>),
                 "https://portal/img1"),
      BuildResult("img1", TERMINATED, None, "", <<>>),
      BuildResult("img2", "Running", None, "", LogText("img2", 1)),
      BuildResult("img1", "Unknown", Some(0), "", <<>>),
      BuildResult("img2", "Running", Some(1), "", <<>>) }

\* The environments report_results is run in: each CI setting unset, empty or
\* set, and each sink setting unset, empty or naming a file.
ReportEnvs ==
    { [GITHUB_ACTIONS |-> a, GITHUB_ACTION |-> b,
       GITHUB_OUTPUT |-> sinks[1], GITHUB_STEP_SUMMARY |-> sinks[2]] :
        a \in {None, Some(""), Some("true")},
        b \in {None, Some("run1")},
        sinks \in { <<None, None>>,
                    <<Some("out.txt"), Some("summary.md")>>,
                    <<Some(""), Some("summary.md")>>,
                    <<Some("out.txt"), None>> } }

\* Files that already hold a record.
UsedFiles == [p \in Paths |-> Codes("key") \o Codes("=") \o Codes("value") \o <<LF>>]

SeqsUpTo(S, n) == UNION { [1..k -> S] : k \in 0..n }

Range(s) == { s[k] : k \in DOMAIN s }

Distinct(s) == \A j, k \in DOMAIN s : j # k => s[j] # s[k]

\* ------------------------------------------------------------------ state

VARIABLES
    entry,          \* the function running
    image_names,    \* wait_for_builds: the caller's list
    portal_urls,    \* wait_for_builds: the caller's dict (None replaced by {})
    in_github,      \* wait_for_builds: is_github_actions()
    pc,             \* position in the running function
    idx,            \* wait_for_builds: position of the for loop in image_names
    log_offsets,    \* wait_for_builds: dict image name -> characters streamed
    completed,      \* wait_for_builds: set of image names seen Terminated
    results,        \* wait_for_builds: dict image name -> BuildResult
    returned,       \* wait_for_builds: the returned list
    image_name,     \* follow_image_logs: the image followed
    log_offset,     \* follow_image_logs: characters streamed
    exit_status,    \* follow_image_logs: the returned exit code (optional)
    observed,       \* history: (state, exit_code, detail) seen by the follower's latest poll
    env,            \* os.environ: the four GITHUB_* settings (optional strings)
    files,          \* the file system: path -> text
    stdout,         \* what print() wrote, one text per call
    console,        \* what logger.warning() wrote, one text per call
    calls,          \* history: the calls made to the three GitHub writers
    report,         \* report_results: argument, locals and returned list
    poll_call,      \* poll_build called directly: client answers, locals and outcome
    call,           \* a function called directly: its arguments (and results)
    written,        \* history: per image, the log characters written to stdout
    longest,        \* history: per image, the longest log length fetched
    completion_order, \* history: image names in the order they were completed
    sweep_polls,    \* history: per image, polls in the current sweep
    before,         \* history: per image listed once and not yet visited, its state at sweep start
    marks,          \* history: the group markers the monitor's latest step printed
    open_groups,    \* history: ::group:: lines printed less ::endgroup:: lines printed
    info,           \* history: what the monitor's latest step wrote with logger.info()
    fetched_logs,   \* history: the full_logs of the monitor's latest poll that returned (optional)
    fetched,        \* history: the log client's latest answer to the follower (optional)
    last            \* history: the step just taken

monitor_vars == <<image_names, portal_urls, in_github, idx, log_offsets, completed,
                  results, returned, completion_order, sweep_polls, before,
                  marks, open_groups, info, fetched_logs>>

follow_vars == <<image_name, log_offset, exit_status, observed, fetched>>

ci_vars == <<env, files, stdout, console, calls, report, poll_call>>

vars == <<entry, pc, monitor_vars, follow_vars, call, written, longest, last, ci_vars>>

Event(op, name) == [op |-> op, name |-> name]

\* if x: for an optional string (None and '' are falsy).
Truthy(opt) == opt # None /\ opt # Some("")

IsGithubActionsIfSet == env.GITHUB_ACTIONS # None \/ env.GITHUB_ACTION # None

\* is_github_actions
IsGithubActions == Truthy(env.GITHUB_ACTIONS) \/ Truthy(env.GITHUB_ACTION)

\* The state of one image as the monitor holds it.
Held(name) ==
    [visited |-> FALSE,
     offset |-> log_offsets[name],
     result |-> IF name \in DOMAIN results THEN Some(results[name]) ELSE None,
     completed |-> name \in completed]

Visited == [visited |-> TRUE, offset |-> 0, result |-> None, completed |-> FALSE]

NoCall == [image_name |-> "", full_content |-> <<>>, previous_length |-> 0,
           use_groups |-> FALSE, first |-> None, second |-> None]

MonitorIdle ==
    /\ image_names = <<>>
    /\ portal_urls = <<>>
    /\ in_github = FALSE
    /\ idx = 0
    /\ log_offsets = <<>>
    /\ completed = {}
    /\ results = <<>>
    /\ returned = <<>>
    /\ completion_order = <<>>
    /\ sweep_polls = [n \in Names |-> 0]
    /\ before = <<>>
    /\ marks = <<>>
    /\ open_groups = 0
    /\ info = <<>>
    /\ fetched_logs = None

FollowIdle ==
    /\ image_name = ""
    /\ log_offset = 0
    /\ exit_status = None
    /\ observed = None
    /\ fetched = None

\* Nothing printed, logged or written yet; report_results and poll_build are
\* not running.
CiIdle ==
    /\ files = NoFiles
    /\ stdout = <<>>
    /\ console = <<>>
    /\ calls = <<>>
    /\ report = NoReport
    /\ poll_call = NoPoll

\* wait_for_builds up to the while loop.
InitMonitor ==
    /\ entry = "wait_for_builds"
    /\ image_names \in SeqsUpTo(Names, MaxJobs)
    /\ \E arg \in PortalUrlArgs :
         portal_urls = IF arg = None THEN <<>> ELSE arg[1]
    /\ env \in MonitorEnvs
    /\ in_github = IsGithubActions
    /\ pc = "while"
    /\ idx = 0
    /\ log_offsets = [n \in Range(image_names) |-> 0]
    /\ completed = {}
    /\ results = <<>>
    /\ returned = <<>>
    /\ completion_order = <<>>
    /\ sweep_polls = [n \in Names |-> 0]
    /\ before = [n \in Range(image_names) |-> Visited]
    /\ FollowIdle
    /\ files = NoFiles
    /\ stdout = <<>>
    /\ console = <<Codes("Waiting for builds to complete...")>>
    /\ marks = (IF in_github THEN <<ProgressGroup>> ELSE <<>>)
    /\ open_groups = Len(marks)
    /\ info = <<>>
    /\ fetched_logs = None
    /\ calls = <<>>
    /\ report = NoReport
    /\ poll_call = NoPoll
    /\ call = NoCall
    /\ written = [n \in Names |-> <<>>]
    /\ longest = [n \in Names |-> 0]
    /\ last = Event("init", "")

\* ------------------------------------------------------- wait_for_builds

PortalUrlOfEmpty(name) == ""

\* portal_urls.get(name, '')
PortalUrlOf(name) == IF name \in DOMAIN portal_urls THEN portal_urls[name] ELSE ""

LoopGuardLessEqual == Cardinality(completed) <= Len(image_names)

LoopGuardNoneCompleted == completed = {}

LoopGuardAlways == TRUE

LoopGuardDistinct == Cardinality(completed) < Cardinality(Range(image_names))

\* while len(completed) < len(image_names)
LoopGuard == Cardinality(completed) < Len(image_names)

SkipsNothing(name) == FALSE

SkipsFirstOnly(name) == name \in completed /\ name = image_names[1]

IsTerminatedAlways(result) == TRUE

\* f'Error polling {name}: {ex}', for an exception whose text is 'error'
ErrorPolling(name) == Codes("Error polling ") \o Codes(name) \o Codes(": ") \o Codes("error")

PendingReversed ==
    LET pending == SelectSeq(image_names, LAMBDA n : n \notin completed)
    IN [k \in DOMAIN pending |-> pending[Len(pending) + 1 - k]]

\* [n for n in image_names if n not in completed]
Pending == SelectSeq(image_names, LAMBDA n : n \notin completed)

\* f'Waiting for {len(pending)} build(s): {", ".join(pending)}'
PendingDiagnostic ==
    Codes("Waiting for ") \o StrNat(Len(Pending)) \o Codes(" build(s): ")
    \o Join(Codes(", "), [k \in DOMAIN Pending |-> Codes(Pending[k])])

\* 'succeeded' if result.succeeded else f'FAILED (exit code {result.exit_code})'
StatusStr(result) ==
    IF succeeded(result) THEN Codes("succeeded")
    ELSE Codes("FAILED (exit code ") \o StrOptInt(result.exit_code) \o Codes(")")

\* f'{name}: build {status_str}'
CompletionNotice(name, result) == Codes(name) \o Codes(": build ") \o StatusStr(result)

\* if result.state == TERMINATED
IsTerminated(result) == result.state = TERMINATED

\* if name in completed: continue
Skips(name) == name \in completed

\* use_groups=(in_github and len(image_names) > 1)
UseGroups == in_github /\ Len(image_names) > 1

ReturnedInCompletionOrder ==
    [k \in DOMAIN completion_order |-> results[completion_order[k]]]

\* [results[name] for name in image_names]
ReturnedList == [k \in DOMAIN image_names |-> results[image_names[k]]]

\* The for loop is at an image.
AtImage == entry = "wait_for_builds" /\ pc = "for" /\ idx \in DOMAIN image_names

\* The for loop is exhausted.
AtSweepEnd == entry = "wait_for_builds" /\ pc = "for" /\ idx > Len(image_names)

\* History: the state of every image listed once is saved when a sweep
\* starts, and dropped when the for loop visits the image.
ListedOnce(name) == Cardinality({k \in DOMAIN image_names : image_names[k] = name}) = 1

SavedAtSweepStart ==
    [n \in Range(image_names) |-> IF ListedOnce(n) THEN Held(n) ELSE Visited]

VisitedNow(name) == [before EXCEPT ![name] = Visited]

\* The while guard holds: the for loop starts a sweep.
StartSweep ==
    /\ entry = "wait_for_builds" /\ pc = "while"
    /\ LoopGuard
    /\ pc' = "for"
    /\ idx' = 1
    /\ before' = SavedAtSweepStart
    /\ last' = Event("sweep", "")
    /\ marks' = <<>>
    /\ info' = <<>>
    /\ fetched_logs' = None
    /\ UNCHANGED <<open_groups, entry, image_names, portal_urls, in_github, log_offsets,
                   completed, results, returned, completion_order, sweep_polls,
                   follow_vars, call, written, longest, ci_vars>>

\* The for loop is at an image already completed.
SkipCompleted ==
    /\ AtImage
    /\ Skips(image_names[idx])
    /\ idx' = idx + 1
    /\ before' = VisitedNow(image_names[idx])
    /\ last' = Event("skip", image_names[idx])
    /\ marks' = <<>>
    /\ info' = <<>>
    /\ fetched_logs' = None
    /\ UNCHANGED <<open_groups, entry, pc, image_names, portal_urls, in_github, log_offsets,
                   completed, results, returned, completion_order, sweep_polls,
                   follow_vars, call, written, longest, ci_vars>>

PollRaisesAndMarksCompleted ==
    /\ AtImage
    /\ ~Skips(image_names[idx])
    /\ idx' = idx + 1
    /\ completed' = completed \cup {image_names[idx]}
    /\ completion_order' = Append(completion_order, image_names[idx])
    /\ sweep_polls' = [sweep_polls EXCEPT ![image_names[idx]] = @ + 1]
    /\ before' = VisitedNow(image_names[idx])
    /\ last' = Event("poll_raise", image_names[idx])
    /\ marks' = <<>>
    /\ info' = <<ErrorPolling(image_names[idx])>>
    /\ fetched_logs' = None
    /\ UNCHANGED <<open_groups, entry, pc, image_names, portal_urls, in_github, log_offsets,
                   results, returned, follow_vars, call, written, longest, ci_vars>>

PollRaisesAndBreaks ==
    /\ AtImage
    /\ ~Skips(image_names[idx])
    /\ idx' = Len(image_names) + 1
    /\ sweep_polls' = [sweep_polls EXCEPT ![image_names[idx]] = @ + 1]
    /\ before' = VisitedNow(image_names[idx])
    /\ last' = Event("poll_raise", image_names[idx])
    /\ marks' = <<>>
    /\ info' = <<ErrorPolling(image_names[idx])>>
    /\ fetched_logs' = None
    /\ UNCHANGED <<open_groups, entry, pc, image_names, portal_urls, in_github, log_offsets,
                   completed, results, returned, completion_order,
                   follow_vars, call, written, longest, ci_vars>>

PollRaisesAndRepeats ==
    /\ AtImage
    /\ ~Skips(image_names[idx])
    /\ sweep_polls[image_names[idx]] < 2
    /\ sweep_polls' = [sweep_polls EXCEPT ![image_names[idx]] = @ + 1]
    /\ before' = VisitedNow(image_names[idx])
    /\ last' = Event("poll_raise", image_names[idx])
    /\ marks' = <<>>
    /\ info' = <<ErrorPolling(image_names[idx])>>
    /\ fetched_logs' = None
    /\ UNCHANGED <<open_groups, entry, pc, idx, image_names, portal_urls, in_github,
                   log_offsets, completed, results, returned, completion_order,
                   follow_vars, call, written, longest, ci_vars>>

\* poll_build raises (the container-group client failed): logged, continue.
PollRaises ==
    /\ AtImage
    /\ ~Skips(image_names[idx])
    /\ idx' = idx + 1
    /\ sweep_polls' = [sweep_polls EXCEPT ![image_names[idx]] = @ + 1]
    /\ before' = VisitedNow(image_names[idx])
    /\ last' = Event("poll_raise", image_names[idx])
    /\ marks' = <<>>
    /\ info' = <<ErrorPolling(image_names[idx])>>
    /\ fetched_logs' = None
    /\ UNCHANGED <<open_groups, entry, pc, image_names, portal_urls, in_github, log_offsets,
                   completed, results, returned, completion_order,
                   follow_vars, call, written, longest, ci_vars>>

\* poll_build returns (result, full_logs): store the result, stream the
\* delta, check Terminated.
PollReturns(polled_result, full_logs) ==
    LET name == image_names[idx]
        result == [polled_result EXCEPT !.portal_url = PortalUrlOf(name)]
        streamed == StreamLogDelta(name, full_logs, log_offsets[name], UseGroups)
    IN /\ results' = [n \in DOMAIN results \cup {name} |->
                         IF n = name THEN result ELSE results[n]]
       /\ log_offsets' = [log_offsets EXCEPT ![name] = streamed.ret]
       /\ written' = [written EXCEPT ![name] = @ \o Chars(streamed.out)]
       /\ longest' = [longest EXCEPT
                         ![name] = IF Len(full_logs) > @ THEN Len(full_logs) ELSE @]
       /\ marks' = Markers(streamed.out)
       /\ info' = <<>>
       /\ fetched_logs' = Some(full_logs)
       /\ open_groups' = open_groups + Net(marks')
       /\ IF IsTerminated(result)
          THEN /\ completed' = completed \cup {name}
               /\ completion_order' = Append(completion_order, name)
               /\ console' = Append(console, CompletionNotice(name, result))
          ELSE UNCHANGED <<completed, completion_order, console>>
       /\ idx' = idx + 1
       /\ sweep_polls' = [sweep_polls EXCEPT ![name] = @ + 1]
       /\ before' = VisitedNow(name)
       /\ last' = Event("poll_ok", name)
       /\ UNCHANGED <<entry, pc, image_names, portal_urls, in_github, returned,
                      follow_vars, call, env, files, stdout, calls, report,
                      poll_call>>

PollOk ==
    /\ AtImage
    /\ ~Skips(image_names[idx])
    /\ \E polled \in PollOutcomes[image_names[idx]] : PollReturns(polled[1], polled[2])

\* The same with a log client that always answers with the first character.
PollOkShortLog ==
    /\ AtImage
    /\ ~Skips(image_names[idx])
    /\ \E polled \in ShortLogOutcomes[image_names[idx]] : PollReturns(polled[1], polled[2])

\* The for loop is exhausted: sleep if builds are pending, then the guard.
EndSweep ==
    /\ AtSweepEnd
    /\ pc' = "while"
    /\ last' = IF Cardinality(completed) < Len(image_names)
               THEN Event("sleep", "") ELSE Event("nosleep", "")
    /\ sweep_polls' = [n \in Names |-> 0]
    /\ marks' = <<>>
    /\ info' = (IF Cardinality(completed) < Len(image_names)
                THEN <<PendingDiagnostic>> ELSE <<>>)
    /\ fetched_logs' = None
    /\ UNCHANGED <<open_groups, entry, image_names, portal_urls, in_github, idx, log_offsets,
                   completed, results, returned, completion_order, before,
                   follow_vars, call, written, longest, ci_vars>>

\* The while guard fails: build the returned list (KeyError if a name has
\* no stored result).
Return ==
    /\ entry = "wait_for_builds" /\ pc = "while"
    /\ ~LoopGuard
    /\ IF Range(image_names) \subseteq DOMAIN results
       THEN pc' = "done" /\ returned' = ReturnedList
       ELSE pc' = "raised" /\ UNCHANGED returned
    /\ last' = Event("return", "")
    /\ marks' = (IF in_github THEN <<EndGroupMarker>> ELSE <<>>)
    /\ info' = <<>>
    /\ fetched_logs' = None
    /\ open_groups' = open_groups + Net(marks')
    /\ UNCHANGED <<entry, image_names, portal_urls, in_github, idx, log_offsets,
                   completed, results, completion_order, sweep_polls, before,
                   follow_vars, call, written, longest, ci_vars>>

NextMonitor ==
    \/ StartSweep
    \/ SkipCompleted
    \/ PollRaises
    \/ PollOk
    \/ EndSweep
    \/ Return

\* ----------------------------------------------------- follow_image_logs

\* follow_image_logs up to the while loop.
InitFollow ==
    /\ entry = "follow_image_logs"
    /\ pc = "poll"
    /\ MonitorIdle
    /\ image_name \in Names
    /\ log_offset = 0
    /\ exit_status = None
    /\ observed = None
    /\ fetched = None
    /\ env = NoEnv
    /\ files = NoFiles
    /\ stdout = <<>>
    /\ console = <<Codes("Following logs for ") \o Codes(image_name) \o Codes("...")>>
    /\ calls = <<>>
    /\ report = NoReport
    /\ poll_call = NoPoll
    /\ call = NoCall
    /\ written = [n \in Names |-> <<>>]
    /\ longest = [n \in Names |-> 0]
    /\ last = Event("init", "")

OrOne(exit_code) == IF exit_code = None THEN 1 ELSE exit_code[1]

\* exit_code or 0
OrZero(exit_code) == IF exit_code = None THEN 0 ELSE exit_code[1]

\* The notices at Terminated: an empty line, the outcome, the detail if any.
FollowNotices(name, exit_code, detail) ==
    << Codes(""),
       IF exit_code = Some(0)
       THEN Codes(name) \o Codes(": build succeeded")
       ELSE Codes(name) \o Codes(": build FAILED (exit code ")
            \o StrOptInt(exit_code) \o Codes(")") >>
    \o (IF Truthy(detail) THEN <<Codes("  Detail: ") \o Codes(detail[1])>> ELSE <<>>)

FollowRaisesAndForgets ==
    /\ entry = "follow_image_logs" /\ pc = "poll"
    /\ pc' = "sleep"
    /\ log_offset' = 0
    /\ last' = Event("poll_raise", image_name)
    /\ UNCHANGED <<entry, monitor_vars, image_name, exit_status, observed, fetched,
                   call, written, longest, ci_vars>>

\* The container-group client raises inside the try: logged, then sleep.
FollowRaises ==
    /\ entry = "follow_image_logs" /\ pc = "poll"
    /\ pc' = "sleep"
    /\ last' = Event("poll_raise", image_name)
    /\ UNCHANGED <<entry, monitor_vars, follow_vars, call, written, longest, ci_vars>>

\* One iteration of the try block with the answers of the two clients.
FollowPolls(cg, logresp) ==
    LET st == GetContainerState(cg)
        full_logs == FetchLogs(logresp)
        streamed == StreamLogDelta(image_name, full_logs, log_offset, FALSE)
    IN /\ log_offset' = streamed.ret
       /\ written' = [written EXCEPT ![image_name] = @ \o Chars(streamed.out)]
       /\ longest' = [longest EXCEPT
                         ![image_name] = IF Len(full_logs) > @ THEN Len(full_logs) ELSE @]
       /\ observed' = Some(st)
       /\ fetched' = Some(logresp)
       /\ IF st[1] = Some(TERMINATED)
          THEN /\ pc' = "done"
               /\ exit_status' = Some(OrZero(st[2]))
               /\ console' = console \o FollowNotices(image_name, st[2], st[3])
          ELSE pc' = "sleep" /\ UNCHANGED <<exit_status, console>>
       /\ last' = Event("poll_ok", image_name)
       /\ UNCHANGED <<entry, monitor_vars, image_name, call, env, files, stdout,
                      calls, report, poll_call>>

FollowPoll ==
    /\ entry = "follow_image_logs" /\ pc = "poll"
    /\ \E cg \in ContainerGroups, logresp \in LogResponses(image_name) :
         FollowPolls(cg, logresp)

\* time.sleep(POLL_INTERVAL_SECONDS), then the next iteration.
FollowSleep ==
    /\ entry = "follow_image_logs" /\ pc = "sleep"
    /\ pc' = "poll"
    /\ last' = Event("sleep", "")
    /\ UNCHANGED <<entry, monitor_vars, follow_vars, call, written, longest, ci_vars>>

NextFollow ==
    \/ FollowRaises
    \/ FollowPoll
    \/ FollowSleep

\* -------------------------------------------- writers acting on the sinks

Overwritten(fs, setting, text) ==
    IF Truthy(env[setting]) THEN [fs EXCEPT ![env[setting][1]] = text] ELSE fs

\* with open(path, 'a') as f: f.write(text), if the setting is truthy.
Appended(fs, setting, text) ==
    IF Truthy(env[setting]) THEN [fs EXCEPT ![env[setting][1]] = @ \o text] ELSE fs

\* write_github_output: the files after the call.
WriteGithubOutput(fs, key, value) ==
    Appended(fs, "GITHUB_OUTPUT", key \o Codes("=") \o value \o <<LF>>)

\* write_github_summary: the files after the call.
WriteGithubSummary(fs, markdown) ==
    Appended(fs, "GITHUB_STEP_SUMMARY", markdown \o <<LF>>)

AnnotationCall(level, message, title) ==
    [fn |-> "emit_github_annotation", level |-> level, message |-> message,
     title |-> title]

OutputCall(key, value) == [fn |-> "write_github_output", key |-> key, value |-> value]

SummaryCall(markdown) == [fn |-> "write_github_summary", markdown |-> markdown]

\* --------------------------------------------------------- report_results

\* A caller about to call report_results.
InitReport ==
    /\ entry = "report_results"
    /\ pc = "start"
    /\ MonitorIdle
    /\ FollowIdle
    /\ env \in ReportEnvs
    /\ files = UsedFiles
    /\ stdout = <<>>
    /\ console = <<>>
    /\ calls = <<>>
    /\ \E rs \in SeqsUpTo(ReportInputs, MaxResults) :
         report = [NoReport EXCEPT !.results = rs]
    /\ poll_call = NoPoll
    /\ call = NoCall
    /\ written = [n \in Names |-> <<>>]
    /\ longest = [n \in Names |-> 0]
    /\ last = Event("init", "")

FailedResultsReversed(rs) ==
    LET f == SelectSeq(rs, failed)
    IN [k \in DOMAIN f |-> f[Len(f) + 1 - k]]

\* [r for r in results if r.failed]
FailedResults(rs) == SelectSeq(rs, failed)

\* [r for r in results if r.succeeded]
SucceededResults(rs) == SelectSeq(rs, succeeded)

\* in_github, failed and succeeded are computed.
ReportStart ==
    /\ entry = "report_results" /\ pc = "start"
    /\ pc' = "console"
    /\ report' = [report EXCEPT !.in_github = IsGithubActions,
                                !.failed = FailedResults(report.results),
                                !.succeeded = SucceededResults(report.results)]
    /\ last' = Event("start", "")
    /\ UNCHANGED <<entry, monitor_vars, follow_vars, call, written, longest,
                   env, files, stdout, console, calls, poll_call>>

\* f'  {icon} {r.image_name}: {r.state}{code_str}'
ConsoleLine(r) ==
    LET icon == IF succeeded(r) THEN CheckMark
                ELSE IF failed(r) THEN BallotX ELSE Codes("?")
        code_str == IF r.exit_code # None
                    THEN Codes(" (exit code ") \o StrInt(r.exit_code[1]) \o Codes(")")
                    ELSE <<>>
    IN Codes("  ") \o icon \o Codes(" ") \o Codes(r.image_name) \o Codes(": ")
       \o Codes(r.state) \o code_str

\* '=' * 60
Rule == Repeat(61, 60)

\* The console summary: the heading, one line per result, the closing rule.
ReportConsole ==
    /\ entry = "report_results" /\ pc = "console"
    /\ console' = console \o <<Codes(""), Rule, Codes("BUILD RESULTS"), Rule>>
                  \o [k \in DOMAIN report.results |-> ConsoleLine(report.results[k])]
                  \o <<Rule>>
    /\ pc' = IF report.in_github THEN "annotate" ELSE "return"
    /\ last' = Event("console", "")
    /\ UNCHANGED <<entry, monitor_vars, follow_vars, call, written, longest,
                   env, files, stdout, calls, report, poll_call>>

FailureMessageNoPlaceholder(r) ==
    Codes("Build failed with exit code ") \o StrOptInt(r.exit_code)
    \o Codes(".") \o <<LF, LF>> \o Codes("Last ") \o StrInt(LOG_TAIL_LINES)
    \o Codes(" lines:") \o <<LF>> \o r.logs_tail

\* The message of the error annotation of a failed result.
FailureMessage(r) ==
    LET tail == IF r.logs_tail # <<>> THEN r.logs_tail
                ELSE Codes("(no logs available)")
    IN Codes("Build failed with exit code ") \o StrOptInt(r.exit_code)
       \o Codes(".") \o <<LF, LF>> \o Codes("Last ") \o StrInt(LOG_TAIL_LINES)
       \o Codes(" lines:") \o <<LF>> \o tail

ErrorAnnotation(r) ==
    AnnotationCall(Codes("error"), FailureMessage(r),
                   Some(Codes(r.image_name) \o Codes(" build failed")))

NoticeAnnotation(r) ==
    AnnotationCall(Codes("notice"), Codes("Build completed successfully."),
                   Some(Codes(r.image_name) \o Codes(" build succeeded")))

\* The annotations report_results asks for: errors first, then notices.
AnnotationCalls ==
    [k \in DOMAIN report.failed |-> ErrorAnnotation(report.failed[k])]
    \o [k \in DOMAIN report.succeeded |-> NoticeAnnotation(report.succeeded[k])]

\* One error annotation per failed result, one notice per succeeded one.
ReportAnnotations ==
    /\ entry = "report_results" /\ pc = "annotate"
    /\ calls' = calls \o AnnotationCalls
    /\ stdout' = stdout \o [k \in DOMAIN AnnotationCalls |->
                               EmitGithubAnnotation(AnnotationCalls[k].level,
                                                    AnnotationCalls[k].message,
                                                    AnnotationCalls[k].title)]
    /\ pc' = "summary"
    /\ last' = Event("annotate", "")
    /\ UNCHANGED <<entry, monitor_vars, follow_vars, call, written, longest,
                   env, files, console, report, poll_call>>

\* f'| {r.image_name} | {status} | {code} | {portal} |'
SummaryRow(r) ==
    LET status == IF succeeded(r) THEN Codes(":white_check_mark: Succeeded")
                  ELSE IF failed(r) THEN Codes(":x: Failed")
                  ELSE Codes(":grey_question: Unknown")
        code == IF r.exit_code # None THEN StrInt(r.exit_code[1]) ELSE Codes("-")
        portal == IF r.portal_url # ""
                  THEN Codes("[Portal](") \o Codes(r.portal_url) \o Codes(")")
                  ELSE Codes("-")
    IN Codes("| ") \o Codes(r.image_name) \o Codes(" | ") \o status
       \o Codes(" | ") \o code \o Codes(" | ") \o portal \o Codes(" |")

\* The three lines of the failure section for one failed result.
FailureDetails(r) ==
    << Codes("<details><summary>") \o Codes(r.image_name) \o Codes("</summary>") \o <<LF>>,
       Fence \o <<LF>> \o r.logs_tail \o <<LF>> \o Fence \o <<LF>>,
       Codes("</details>") \o <<LF>> >>

RECURSIVE FailureSection(_)
FailureSection(rs) ==
    IF rs = <<>> THEN <<>> ELSE FailureDetails(Head(rs)) \o FailureSection(Tail(rs))

\* summary_lines
SummaryLines ==
    << Codes("## Build Results") \o <<LF>>,
       Codes("| Image | Status | Exit Code | Details |"),
       Codes("|-------|--------|-----------|---------|") >>
    \o [k \in DOMAIN report.results |-> SummaryRow(report.results[k])]
    \o << Codes("") >>
    \o (IF report.failed # <<>>
        THEN << Codes("### Failure Logs") \o <<LF>> >> \o FailureSection(report.failed)
        ELSE <<>>)

\* The step summary is written.
ReportSummary ==
    /\ entry = "report_results" /\ pc = "summary"
    /\ calls' = Append(calls, SummaryCall(Join(<<LF>>, SummaryLines)))
    /\ files' = WriteGithubSummary(files, Join(<<LF>>, SummaryLines))
    /\ pc' = "output"
    /\ last' = Event("summary", "")
    /\ UNCHANGED <<entry, monitor_vars, follow_vars, call, written, longest,
                   env, stdout, console, report, poll_call>>

\* ','.join(r.image_name for r in rs)
ImageNames(rs) == Join(Codes(","), [k \in DOMAIN rs |-> Codes(rs[k].image_name)])

BuildResultValueSuccessFirst ==
    IF report.succeeded # <<>> THEN Codes("success")
    ELSE IF report.failed # <<>> THEN Codes("failure") ELSE Codes("unknown")

\* 'failure' if failed else ('success' if succeeded else 'unknown')
BuildResultValue ==
    IF report.failed # <<>> THEN Codes("failure")
    ELSE IF report.succeeded # <<>> THEN Codes("success") ELSE Codes("unknown")

\* The write_github_output calls report_results makes.
OutputCalls ==
    << OutputCall(Codes("build_result"), BuildResultValue) >>
    \o (IF report.failed # <<>>
        THEN << OutputCall(Codes("failed_images"), ImageNames(report.failed)) >>
        ELSE <<>>)
    \o (IF report.succeeded # <<>>
        THEN << OutputCall(Codes("succeeded_images"), ImageNames(report.succeeded)) >>
        ELSE <<>>)

RECURSIVE WriteOutputs(_, _)
WriteOutputs(fs, cs) ==
    IF cs = <<>> THEN fs
    ELSE WriteOutputs(WriteGithubOutput(fs, Head(cs).key, Head(cs).value), Tail(cs))

\* The keys for downstream steps are written.
ReportOutputs ==
    /\ entry = "report_results" /\ pc = "output"
    /\ calls' = calls \o OutputCalls
    /\ files' = WriteOutputs(files, OutputCalls)
    /\ pc' = "return"
    /\ last' = Event("output", "")
    /\ UNCHANGED <<entry, monitor_vars, follow_vars, call, written, longest,
                   env, stdout, console, report, poll_call>>

\* return failed
ReportReturn ==
    /\ entry = "report_results" /\ pc = "return"
    /\ report' = [report EXCEPT !.returned = Some(report.failed)]
    /\ pc' = "done"
    /\ last' = Event("return", "")
    /\ UNCHANGED <<entry, monitor_vars, follow_vars, call, written, longest,
                   env, files, stdout, console, calls, poll_call>>

NextReport ==
    \/ ReportStart
    \/ ReportConsole
    \/ ReportAnnotations
    \/ ReportSummary
    \/ ReportOutputs
    \/ ReportReturn

\* -------------------------------------------- _stream_log_delta, directly

Texts == SeqsUpTo({LF, 120}, MaxText)

\* A caller about to call _stream_log_delta.
InitCall ==
    /\ entry = "_stream_log_delta"
    /\ pc = "start"
    /\ MonitorIdle
    /\ FollowIdle
    /\ env = NoEnv
    /\ CiIdle
    /\ \E n \in Names, text \in Texts, prev \in 0..(MaxText + 1), groups \in BOOLEAN :
         call = [NoCall EXCEPT !.image_name = n, !.full_content = text,
                               !.previous_length = prev, !.use_groups = groups]
    /\ written = [n \in Names |-> <<>>]
    /\ longest = [n \in Names |-> 0]
    /\ last = Event("init", "")

\* The call.
CallOnce ==
    /\ entry = "_stream_log_delta" /\ pc = "start"
    /\ pc' = "called"
    /\ call' = [call EXCEPT !.first =
                   Some(StreamLogDelta(call.image_name, call.full_content,
                                       call.previous_length, call.use_groups))]
    /\ last' = Event("call", call.image_name)
    /\ UNCHANGED <<entry, monitor_vars, follow_vars, written, longest, ci_vars>>

\* A second call with the very same arguments.
CallAgainSame ==
    /\ entry = "_stream_log_delta" /\ pc = "called"
    /\ pc' = "again_same"
    /\ call' = [call EXCEPT !.second =
                   Some(StreamLogDelta(call.image_name, call.full_content,
                                       call.previous_length, call.use_groups))]
    /\ last' = Event("call", call.image_name)
    /\ UNCHANGED <<entry, monitor_vars, follow_vars, written, longest, ci_vars>>

\* A second call with the same text and the length the first call returned
\* (how wait_for_builds and follow_image_logs thread the offset).
CallAgainThreaded ==
    /\ entry = "_stream_log_delta" /\ pc = "called"
    /\ pc' = "again_threaded"
    /\ call' = [call EXCEPT !.second =
                   Some(StreamLogDelta(call.image_name, call.full_content,
                                       call.first[1].ret, call.use_groups))]
    /\ last' = Event("call", call.image_name)
    /\ UNCHANGED <<entry, monitor_vars, follow_vars, written, longest, ci_vars>>

NextCall ==
    \/ CallOnce
    \/ CallAgainSame
    \/ CallAgainThreaded

\* ---------------------------------------- emit_github_annotation, directly

\* The levels of the workflow command, and titles: none, empty, the two
\* report_results builds, and one with a newline in it.
Levels == { Codes("error"), Codes("warning"), Codes("notice") }

Titles ==
    { None, Some(<<>>),
      Some(Codes("img1") \o Codes(" build failed")),
      Some(Codes("img2") \o Codes(" build succeeded")),
      Some(<<116, LF, 116>>) }

\* A caller about to call emit_github_annotation.
InitEmit ==
    /\ entry = "emit_github_annotation"
    /\ pc = "start"
    /\ MonitorIdle
    /\ FollowIdle
    /\ env = NoEnv
    /\ CiIdle
    /\ \E level \in Levels, message \in Texts, title \in Titles :
         call = [level |-> level, message |-> message, title |-> title]
    /\ written = [n \in Names |-> <<>>]
    /\ longest = [n \in Names |-> 0]
    /\ last = Event("init", "")

\* The call.
CallEmit ==
    /\ entry = "emit_github_annotation" /\ pc = "start"
    /\ pc' = "called"
    /\ stdout' = Append(stdout, EmitGithubAnnotation(call.level, call.message, call.title))
    /\ calls' = Append(calls, AnnotationCall(call.level, call.message, call.title))
    /\ last' = Event("call", "")
    /\ UNCHANGED <<entry, monitor_vars, follow_vars, call, written, longest,
                   env, files, console, report, poll_call>>

NextEmit == CallEmit

\* ------------------------- write_github_output, write_github_summary, directly

\* The sink settings: unset, empty, or naming a file.
SinkEnvs ==
    { [NoEnv EXCEPT !.GITHUB_OUTPUT = o, !.GITHUB_STEP_SUMMARY = m] :
        o \in {None, Some(""), Some("out.txt")},
        m \in {None, Some(""), Some("summary.md")} }

OutputValues == { <<>>, Codes("value") }

Markdowns == { <<>>, <<35, LF, 120>> }

\* A caller about to make calls to the two writers.
InitWriters ==
    /\ entry = "writers"
    /\ pc = "start"
    /\ MonitorIdle
    /\ FollowIdle
    /\ env \in SinkEnvs
    /\ files \in {NoFiles, UsedFiles}
    /\ stdout = <<>>
    /\ console = <<>>
    /\ calls = <<>>
    /\ report = NoReport
    /\ poll_call = NoPoll
    /\ call = NoCall
    /\ written = [n \in Names |-> <<>>]
    /\ longest = [n \in Names |-> 0]
    /\ last = Event("init", "")

\* A call of write_github_output.
CallWriteOutput ==
    /\ entry = "writers" /\ Len(calls) < MaxCalls
    /\ \E value \in OutputValues :
         /\ files' = WriteGithubOutput(files, Codes("key"), value)
         /\ calls' = Append(calls, OutputCall(Codes("key"), value))
    /\ last' = Event("call", "write_github_output")
    /\ UNCHANGED <<entry, pc, monitor_vars, follow_vars, call, written, longest,
                   env, stdout, console, report, poll_call>>

\* A call of write_github_summary.
CallWriteSummary ==
    /\ entry = "writers" /\ Len(calls) < MaxCalls
    /\ \E markdown \in Markdowns :
         /\ files' = WriteGithubSummary(files, markdown)
         /\ calls' = Append(calls, SummaryCall(markdown))
    /\ last' = Event("call", "write_github_summary")
    /\ UNCHANGED <<entry, pc, monitor_vars, follow_vars, call, written, longest,
                   env, stdout, console, report, poll_call>>

NextWriters ==
    \/ CallWriteOutput
    \/ CallWriteSummary

\* ----------------------------------------------------- poll_build, directly

\* A caller about to call poll_build; the group client will raise (None) or
\* answer with a group, the log client will answer with logresp.
InitPoll ==
    /\ entry = "poll_build"
    /\ pc = "start"
    /\ MonitorIdle
    /\ FollowIdle
    /\ env = NoEnv
    /\ files = NoFiles
    /\ stdout = <<>>
    /\ console = <<>>
    /\ calls = <<>>
    /\ report = NoReport
    /\ \E n \in Names, group \in {None} \cup {Some(cg) : cg \in PollGroups} :
       \E logresp \in LogResponses(n) :
         poll_call = [NoPoll EXCEPT !.image_name = n, !.group = group,
                                    !.logresp = Some(logresp)]
    /\ call = NoCall
    /\ written = [n \in Names |-> <<>>]
    /\ longest = [n \in Names |-> 0]
    /\ last = Event("init", "")

\* container_group_client.get: the group, or the client's exception.
PollGetsGroup ==
    /\ entry = "poll_build" /\ pc = "start"
    /\ pc' = IF poll_call.group = None THEN "raised" ELSE "state"
    /\ last' = Event("get", poll_call.image_name)
    /\ UNCHANGED <<entry, monitor_vars, follow_vars, call, written, longest, ci_vars>>

\* state, exit_code, detail_status = _get_container_state(cg)
PollGetsState ==
    /\ entry = "poll_build" /\ pc = "state"
    /\ pc' = "logs"
    /\ poll_call' = [poll_call EXCEPT !.st = Some(GetContainerState(poll_call.group[1]))]
    /\ last' = Event("state", poll_call.image_name)
    /\ UNCHANGED <<entry, monitor_vars, follow_vars, call, written, longest,
                   env, files, stdout, console, calls, report>>

PollFetchesLogsOrRaises ==
    /\ entry = "poll_build" /\ pc = "logs"
    /\ IF poll_call.logresp[1].raises
       THEN pc' = "raised" /\ UNCHANGED poll_call
       ELSE /\ pc' = "result"
            /\ poll_call' = [poll_call EXCEPT !.logs = Some(FetchLogs(poll_call.logresp[1]))]
    /\ last' = Event("logs", poll_call.image_name)
    /\ UNCHANGED <<entry, monitor_vars, follow_vars, call, written, longest,
                   env, files, stdout, console, calls, report>>

\* logs = _fetch_logs(...)
PollFetchesLogs ==
    /\ entry = "poll_build" /\ pc = "logs"
    /\ pc' = "result"
    /\ poll_call' = [poll_call EXCEPT !.logs = Some(FetchLogs(poll_call.logresp[1]))]
    /\ last' = Event("logs", poll_call.image_name)
    /\ UNCHANGED <<entry, monitor_vars, follow_vars, call, written, longest,
                   env, files, stdout, console, calls, report>>

\* The BuildResult is built and returned with the logs.
PollBuildsResult ==
    /\ entry = "poll_build" /\ pc = "result"
    /\ pc' = "done"
    /\ poll_call' = [poll_call EXCEPT !.outcome =
                        Some(PollBuild(poll_call.image_name, poll_call.group[1],
                                       poll_call.logresp[1]))]
    /\ last' = Event("result", poll_call.image_name)
    /\ UNCHANGED <<entry, monitor_vars, follow_vars, call, written, longest,
                   env, files, stdout, console, calls, report>>

NextPoll ==
    \/ PollGetsGroup
    \/ PollGetsState
    \/ PollFetchesLogs
    \/ PollBuildsResult

\* --------------------------------------------------- _tail_lines, directly

\* Texts of letters, blanks and newlines.
TailTexts == SeqsUpTo({LF, 32, 120}, MaxTail)

\* A caller about to call _tail_lines(content, n).
InitTail ==
    /\ entry = "_tail_lines"
    /\ pc = "start"
    /\ MonitorIdle
    /\ FollowIdle
    /\ env = NoEnv
    /\ CiIdle
    /\ \E content \in TailTexts, n \in 0..MaxTail :
         call = [content |-> content, n |-> n, result |-> None]
    /\ written = [name \in Names |-> <<>>]
    /\ longest = [name \in Names |-> 0]
    /\ last = Event("init", "")

\* The call.
CallTail ==
    /\ entry = "_tail_lines" /\ pc = "start"
    /\ pc' = "called"
    /\ call' = [call EXCEPT !.result = Some(TailLines(call.content, call.n))]
    /\ last' = Event("call", "")
    /\ UNCHANGED <<entry, monitor_vars, follow_vars, written, longest, ci_vars>>

NextTail == CallTail

\* ------------------- wait_for_builds([name]) and follow_image_logs(name)
\* ------------------- on the same remote responses, outside CI mode

\* The container groups the service can answer with: those above, and a group
\* without containers whose provisioning state is the string 'Terminated'.
PairGroups ==
    ContainerGroups \cup { [containers |-> <<>>, provisioning_state |-> Some(TERMINATED)] }

\* One answer of the remote side to one poll: the container-group client
\* raises, or it returns cg and the log client answers logresp.
Responses(name) ==
    { [raises |-> TRUE, cg |-> None, logresp |-> None] }
    \cup { [raises |-> FALSE, cg |-> Some(cg), logresp |-> Some(logresp)] :
             cg \in PairGroups, logresp \in LogResponses(name) }

\* One iteration of the while loop of wait_for_builds for the list [name]:
\* the poll, and the return when the job was seen Terminated.
MonitorRound(m, name, response) ==
    IF response.raises THEN [m EXCEPT !.polls = @ + 1]
    ELSE LET polled == PollBuild(name, response.cg[1], response.logresp[1])
             result == polled[1]
             streamed == StreamLogDelta(name, polled[2], m.log_offset, FALSE)
         IN [m EXCEPT !.polls = @ + 1,
                      !.log_offset = streamed.ret,
                      !.out = @ \o Chars(streamed.out),
                      !.returned = IF IsTerminated(result) THEN Some(<<result>>) ELSE None]

\* One iteration of the while loop of follow_image_logs.
FollowerRound(f, name, response) ==
    IF response.raises THEN [f EXCEPT !.polls = @ + 1]
    ELSE LET st == GetContainerState(response.cg[1])
             full_logs == FetchLogs(response.logresp[1])
             streamed == StreamLogDelta(name, full_logs, f.log_offset, FALSE)
         IN [f EXCEPT !.polls = @ + 1,
                      !.log_offset = streamed.ret,
                      !.out = @ \o Chars(streamed.out),
                      !.returned = IF st[1] = Some(TERMINATED)
                                   THEN Some(OrZero(st[2])) ELSE None]

Started == [log_offset |-> 0, polls |-> 0, out |-> <<>>, returned |-> None]

\* Both functions called for the same job, before their first poll.
InitPair ==
    /\ entry = "wait_for_builds, follow_image_logs"
    /\ pc = "loop"
    /\ MonitorIdle
    /\ FollowIdle
    /\ env = NoEnv
    /\ CiIdle
    /\ \E name \in Names :
         call = [name |-> name, rounds |-> 0, monitor |-> Started, follower |-> Started]
    /\ written = [name \in Names |-> <<>>]
    /\ longest = [name \in Names |-> 0]
    /\ last = Event("init", "")

\* The next response reaches each function that has not returned.
PairRound ==
    /\ entry = "wait_for_builds, follow_image_logs" /\ pc = "loop"
    /\ call.rounds < MaxRounds
    /\ \E response \in Responses(call.name) :
         LET m == IF call.monitor.returned = None
                  THEN MonitorRound(call.monitor, call.name, response)
                  ELSE call.monitor
             f == IF call.follower.returned = None
                  THEN FollowerRound(call.follower, call.name, response)
                  ELSE call.follower
         IN /\ call' = [call EXCEPT !.rounds = @ + 1, !.monitor = m, !.follower = f]
            /\ pc' = IF m.returned # None /\ f.returned # None THEN "done" ELSE "loop"
            /\ last' = Event(IF response.raises THEN "poll_raise" ELSE "poll_ok", call.name)
    /\ UNCHANGED <<entry, monitor_vars, follow_vars, written, longest, ci_vars>>

NextPair == PairRound

\* ------------------------ templates_version_validator (_validators.py)

\* if x: for an optional text (None and '' are falsy).
IsSet(opt) == opt # None /\ opt # Some(<<>>)

\* sum(1 for ct in options if ct)
CountSet(options) == Cardinality({k \in DOMAIN options : options[k]})

\* str.lower() and str.isdigit() on ASCII.
Lower(text) == [k \in DOMAIN text |-> IF text[k] \in 65..90 THEN text[k] + 32 ELSE text[k]]

IsDigit(ch) == ch \in 48..57

\* The parts of text between dots.
RECURSIVE DotPartsRec(_, _, _)
DotPartsRec(text, cur, acc) ==
    IF text = <<>> THEN Append(acc, cur)
    ELSE IF Head(text) = 46 THEN DotPartsRec(Tail(text), <<>>, Append(acc, cur))
    ELSE DotPartsRec(Tail(text), Append(cur, Head(text)), acc)

\* match(r'^v[0-9]+\.[0-9]+\.[0-9]+$', version)
IsValidVersion(version) ==
    /\ version # <<>> /\ Head(version) = 118
    /\ LET parts == DotPartsRec(Tail(version), <<>>, <<>>)
       IN /\ Len(parts) = 3
          /\ \A k \in 1..3 : parts[k] # <<>> /\ \A j \in DOMAIN parts[k] : IsDigit(parts[k][j])

\* _validate_version up to the remote lookup: the normalised version.
NormalVersion(version) ==
    LET low == Lower(version)
    IN IF low # <<>> /\ IsDigit(Head(low)) THEN <<118>> \o low ELSE low

\* _is_valid_url: http:// or https:// followed by one or more characters of
\* the pattern's classes (letters, digits, '$' to '_', '!', ' ').
IsValidUrl(url) ==
    LET rest == IF Len(url) >= 8 /\ SubSeq(url, 1, 8) = Codes("https://")
                THEN SubSeq(url, 9, Len(url))
                ELSE IF Len(url) >= 7 /\ SubSeq(url, 1, 7) = Codes("http://")
                THEN SubSeq(url, 8, Len(url))
                ELSE <<>>
    IN /\ rest # <<>>
       /\ \A k \in DOMAIN rest : rest[k] \in (36..95) \cup (97..122) \cup {32, 33}

\* The values the five options take on the command line.
Namespaces ==
    [ local_templates : BOOLEAN,
      template_file : {None, Some(Codes("t.json"))},
      version : {None, Some(Codes("V1.0.0")), Some(Codes("1.0"))},
      prerelease : BOOLEAN,
      templates_url : {None, Some(Codes("https://x/templates.json")), Some(Codes("not a url"))} ]

\* A caller about to validate ns.  lookups counts the requests made to GitHub.
InitValidator ==
    /\ entry = "templates_version_validator"
    /\ pc = "start"
    /\ MonitorIdle
    /\ FollowIdle
    /\ env = NoEnv
    /\ CiIdle
    /\ \E ns \in Namespaces : call = [ns |-> ns, error |-> None, lookups |-> 0]
    /\ written = [name \in Names |-> <<>>]
    /\ longest = [name \in Names |-> 0]
    /\ last = Event("init", "")

\* if sum(1 for ct in [template_file, version, prerelease, templates_url] if ct) > 1
LocalWithOthers(ns) ==
    CountSet(<<IsSet(ns.template_file), IsSet(ns.version), ns.prerelease,
               IsSet(ns.templates_url)>>) > 1

\* The three branches on the options, up to the first remote lookup.
ValidatorChecks ==
    /\ entry = "templates_version_validator" /\ pc = "start"
    /\ LET ns == call.ns
           raise(error) == pc' = "raised" /\ call' = [call EXCEPT !.error = Some(error)]
       IN IF ns.local_templates
          THEN IF LocalWithOthers(ns)
               THEN raise("MutuallyExclusiveArgumentError")
               ELSE pc' = "done" /\ UNCHANGED call
          ELSE IF IsSet(ns.template_file)
          THEN IF IsSet(ns.version) \/ ns.prerelease \/ IsSet(ns.templates_url)
               THEN raise("MutuallyExclusiveArgumentError")
               ELSE pc' = "done" /\ UNCHANGED call
          ELSE IF CountSet(<<IsSet(ns.version), ns.prerelease, IsSet(ns.templates_url)>>) > 1
          THEN raise("MutuallyExclusiveArgumentError")
          ELSE IF IsSet(ns.version)
          THEN LET version == NormalVersion(ns.version[1])
               IN IF IsValidVersion(version)
                  THEN /\ pc' = "version_exists"
                       /\ call' = [call EXCEPT !.ns.version = Some(version)]
                  ELSE /\ pc' = "raised"
                       /\ call' = [call EXCEPT !.ns.version = Some(version),
                                               !.error = Some("InvalidArgumentValueError")]
          ELSE IF IsSet(ns.templates_url)
          THEN IF IsValidUrl(ns.templates_url[1])
               THEN pc' = "done" /\ UNCHANGED call
               ELSE raise("InvalidArgumentValueError")
          ELSE pc' = "latest" /\ UNCHANGED call
    /\ last' = Event("checks", "")
    /\ UNCHANGED <<entry, monitor_vars, follow_vars, written, longest, ci_vars>>

\* github_release_version_exists(version): one request.
ValidatorVersionExists ==
    /\ entry = "templates_version_validator" /\ pc = "version_exists"
    /\ \E exists \in BOOLEAN :
         IF exists
         THEN pc' = "done" /\ call' = [call EXCEPT !.lookups = @ + 1]
         ELSE /\ pc' = "raised"
              /\ call' = [call EXCEPT !.lookups = @ + 1,
                                      !.error = Some("InvalidArgumentValueError")]
    /\ last' = Event("lookup", "")
    /\ UNCHANGED <<entry, monitor_vars, follow_vars, written, longest, ci_vars>>

\* get_github_latest_release_version(prerelease): one request, which gives a
\* tag or raises.
ValidatorLatest ==
    /\ entry = "templates_version_validator" /\ pc = "latest"
    /\ \E tag \in {None, Some(Codes("v1.0.0"))} :
         IF tag = None
         THEN /\ pc' = "raised"
              /\ call' = [call EXCEPT !.lookups = @ + 1, !.error = Some("ClientRequestError")]
         ELSE /\ pc' = "done"
              /\ call' = [call EXCEPT
                    !.lookups = @ + 1,
                    !.ns.version = tag,
                    !.ns.templates_url =
                        Some(Codes("https://github.com/rogerbestmsft/az-bake/releases/download/")
                             \o tag[1] \o Codes("/templates.json"))]
    /\ last' = Event("lookup", "")
    /\ UNCHANGED <<entry, monitor_vars, follow_vars, written, longest, ci_vars>>

NextValidator == ValidatorChecks \/ ValidatorVersionExists \/ ValidatorLatest

\* --------------------------------- get_release_asset (_github_utils.py)

\* The asset URLs of the callers: one with a scheme and one without.
AssetUrls == {"https://x/templates.json", "x/templates.json"}

\* The bodies a server answers with, and those among them response.json()
\* parses (for the others it raises a ValueError).
Bodies == {"{}", "[]", "", "<html>"}

JsonBodies == {"{}", "[]"}

\* What one requests.get(asset_url) and the reading of its response can do.
\* For a URL without a scheme requests.get raises a ValueError (MissingSchema).
\* Otherwise it gives a response with a status code and a body, or raises a
\* ConnectionError, an HTTPError or another exception (a read timeout).
Answers(asset_url) ==
    IF asset_url = "x/templates.json"
    THEN { [raises |-> Some("ValueError"), status_code |-> 0, body |-> "",
            valid_json |-> FALSE] }
    ELSE { [raises |-> None, status_code |-> code, body |-> body,
            valid_json |-> body \in JsonBodies] :
             code \in {200, 404, 500}, body \in Bodies }
         \cup { [raises |-> Some(ex), status_code |-> 0, body |-> "", valid_json |-> FALSE] :
                  ex \in {"ConnectionError", "HTTPError", "ReadTimeout"} }

TryRaisesParsingAlways(answer, to_json) ==
    IF answer.raises # None THEN answer.raises
    ELSE IF answer.status_code = 200
    THEN (IF ~answer.valid_json THEN Some("ValueError") ELSE None)
    ELSE Some("ClientRequestError")

\* What the try body raises on an answer, if anything.
TryRaises(answer, to_json) ==
    IF answer.raises # None THEN answer.raises
    ELSE IF answer.status_code = 200
    THEN (IF to_json /\ ~answer.valid_json THEN Some("ValueError") ELSE None)
    ELSE Some("ClientRequestError")

\* A caller about to call get_release_asset(asset_url, to_json).
InitAsset ==
    /\ entry = "get_release_asset"
    /\ pc = "for"
    /\ MonitorIdle
    /\ FollowIdle
    /\ env = NoEnv
    /\ CiIdle
    /\ \E asset_url \in AssetUrls, to_json \in BOOLEAN :
         call = [asset_url |-> asset_url, to_json |-> to_json, try_number |-> 0,
                 answers |-> <<>>, sleeps |-> 0, returned |-> None, error |-> None]
    /\ written = [name \in Names |-> <<>>]
    /\ longest = [name \in Names |-> 0]
    /\ last = Event("init", "")

\* One iteration of the for loop: the request, and what the try statement
\* does with its outcome.  A loop that runs out of iterations returns None.
AssetTry ==
    /\ entry = "get_release_asset" /\ pc = "for"
    /\ \E answer \in Answers(call.asset_url) :
         LET raised == TryRaises(answer, call.to_json)
             asked == [call EXCEPT !.answers = Append(@, answer)]
         IN IF raised = None
            THEN /\ pc' = "returned"
                 /\ call' = [asked EXCEPT
                       !.returned = Some([json |-> call.to_json, body |-> answer.body])]
            ELSE IF raised[1] \in {"ConnectionError", "HTTPError", "ClientRequestError"}
            THEN /\ pc' = "raised"
                 /\ call' = [asked EXCEPT !.error = Some("ClientRequestError")]
            ELSE IF raised[1] = "ValueError"
            THEN IF call.try_number = TRIES - 1
                 THEN /\ pc' = "raised"
                      /\ call' = [asked EXCEPT !.error = Some("ClientRequestError")]
                 ELSE /\ call' = [asked EXCEPT !.sleeps = @ + 1, !.try_number = @ + 1]
                      /\ pc' = IF call.try_number + 1 < TRIES THEN "for" ELSE "returned"
            ELSE /\ pc' = "raised"
                 /\ call' = [asked EXCEPT !.error = raised]
    /\ last' = Event("request", "")
    /\ UNCHANGED <<entry, monitor_vars, follow_vars, written, longest, ci_vars>>

NextAsset == AssetTry

\* --------------------------------------------------------- specifications

\* report_results on any list of results, in any environment.
SpecReport == InitReport /\ [][NextReport]_vars

\* poll_build called once by a caller, with any answers of the two clients.
SpecPoll == InitPoll /\ [][NextPoll]_vars

\* The monitor of one job and the follower of the same job, side by side.
SpecPair == InitPair /\ [][NextPair]_vars

\* templates_version_validator called once on any combination of options.
SpecValidator == InitValidator /\ [][NextValidator]_vars

\* get_release_asset called once, with any answers of the server.
SpecAsset == InitAsset /\ [][NextAsset]_vars

\* _tail_lines called once by a caller.
SpecTail == InitTail /\ [][NextTail]_vars

\* emit_github_annotation called once by a caller.
SpecEmit == InitEmit /\ [][NextEmit]_vars

\* write_github_output and write_github_summary called by a caller.
SpecWriters == InitWriters /\ [][NextWriters]_vars

Init == InitMonitor \/ InitFollow

Next == NextMonitor \/ NextFollow

\* wait_for_builds or follow_image_logs, with any answers of the service.
Spec == Init /\ [][Next]_vars

\* _stream_log_delta called twice by a caller.
SpecCall == InitCall /\ [][NextCall]_vars

\* A poll of image n that sees it Terminated.
PollTerminated(n) ==
    /\ AtImage
    /\ image_names[idx] = n
    /\ ~Skips(n)
    /\ \E polled \in ShortLogOutcomes[n] :
         polled[1].state = TERMINATED /\ PollReturns(polled[1], polled[2])

InitLive == InitMonitor /\ Distinct(image_names)

NextLive ==
    \/ StartSweep
    \/ SkipCompleted
    \/ PollRaises
    \/ PollOkShortLog
    \/ EndSweep
    \/ Return

\* wait_for_builds on pairwise-distinct names when the loop keeps running
\* and, for every image, the polls that see it Terminated do not stay away
\* forever.
SpecLive ==
    /\ InitLive
    /\ [][NextLive]_vars
    /\ WF_vars(NextLive)
    /\ \A n \in Names : SF_vars(PollTerminated(n))

\* ----------------------------------------------------------------- claims

Occurrences(name) == Cardinality({k \in DOMAIN image_names : image_names[k] = name})

IsPoll(event) == event.op \in {"poll_ok", "poll_raise"}

\* C1: for pairwise-distinct names, wait_for_builds returns one result per
\* name, the k-th being the result stored for (and carrying the name of) the
\* k-th name of the caller's list, whatever the order of completion.
C1_ReturnsInCallerOrder ==
    (entry = "wait_for_builds" /\ pc = "done" /\ Distinct(image_names)) =>
        /\ Len(returned) = Len(image_names)
        /\ \A k \in DOMAIN image_names :
             /\ returned[k] = results[image_names[k]]
             /\ returned[k].image_name = image_names[k]

\* The second image of the list completed first, and the list was returned.
C1_Witness ==
    /\ entry = "wait_for_builds" /\ pc = "done"
    /\ image_names = <<"img1", "img2">>
    /\ completion_order = <<"img2", "img1">>

C3_EventuallyReturns ==
    (entry = "wait_for_builds" /\ Distinct(image_names)) => <>(pc = "done")

\* Two images were followed to the end.
C3_Witness ==
    /\ entry = "wait_for_builds" /\ pc = "done"
    /\ Len(image_names) = 2 /\ Len(returned) = 2

C5_FailureDoesNotStallOthers ==
    /\ [][(entry = "wait_for_builds" /\ last'.op = "poll_raise") =>
            (pc' = "for" /\ idx' = idx + 1)]_vars
    /\ [](entry = "wait_for_builds" /\ pc = "for" =>
            \A k \in DOMAIN image_names :
                k < idx => \/ image_names[k] \in completed
                           \/ sweep_polls[image_names[k]] >= 1)

\* A sweep in which the first image's poll raised (it never had a result) and
\* the second image was then polled and completed.
C5_Witness ==
    /\ AtSweepEnd
    /\ image_names = <<"img1", "img2">>
    /\ "img1" \notin DOMAIN results /\ sweep_polls["img1"] = 1
    /\ "img2" \in completed /\ sweep_polls["img2"] = 1

\* C6: the log being append-only, the characters written for an image are
\* exactly the longest log text fetched for it so far, and their number is the
\* image's log offset.
C6_WrittenIsLongestFetched ==
    entry = "wait_for_builds" =>
        \A n \in DOMAIN log_offsets :
            /\ written[n] = LogText(n, longest[n])
            /\ Len(written[n]) = log_offsets[n]

\* An image whose whole log was streamed and whose latest fetch came back empty.
C6_Witness ==
    /\ entry = "wait_for_builds"
    /\ \E n \in DOMAIN results :
         /\ log_offsets[n] >= 2
         /\ results[n].logs_tail = <<>>
         /\ written[n] = LogText(n, log_offsets[n])

\* C7: the log offsets of wait_for_builds and the log offset of
\* follow_image_logs start at 0 and no step decreases any of them.
C7_OffsetsNeverDecrease ==
    /\ (\A n \in DOMAIN log_offsets : log_offsets[n] = 0) /\ log_offset = 0
    /\ [][/\ \A n \in DOMAIN log_offsets : log_offsets'[n] >= log_offsets[n]
          /\ log_offset' >= log_offset]_vars

\* An image seen Terminated by a poll whose log came back empty, after one
\* character had been streamed.
C7_Witness ==
    /\ entry = "wait_for_builds"
    /\ \E n \in DOMAIN results :
         /\ results[n].state = TERMINATED
         /\ results[n].logs_tail = <<>>
         /\ log_offsets[n] = 1

\* C8: _stream_log_delta given a text no longer than previous_length writes
\* nothing, group markers included, and returns previous_length.
C8_NoGrowthWritesNothing ==
    (entry = "_stream_log_delta" /\ pc # "start"
       /\ Len(call.full_content) <= call.previous_length) =>
        /\ call.first[1].out = <<>>
        /\ call.first[1].ret = call.previous_length

\* A call with use_groups set and a non-empty text exactly previous_length long.
C8_Witness ==
    /\ entry = "_stream_log_delta" /\ pc = "called"
    /\ call.use_groups
    /\ Len(call.full_content) = call.previous_length
    /\ call.previous_length > 0

\* C9 as stated: a second call with the same (text, previous_length) emits
\* nothing and returns the same length as the first call.
C9_SecondSameCallEmitsNothing ==
    (entry = "_stream_log_delta" /\ pc = "again_same") =>
        /\ call.second[1].out = <<>>
        /\ call.second[1].ret = call.first[1].ret

\* C9 amended: a second call with the same text and the length the first call
\* returned emits nothing and returns that length; a second call with the very
\* same arguments emits nothing exactly when the text is no longer than
\* previous_length.
C9_ThreadedSecondCallEmitsNothing ==
    /\ (entry = "_stream_log_delta" /\ pc = "again_threaded") =>
          /\ call.second[1].out = <<>>
          /\ call.second[1].ret = call.first[1].ret
    /\ (entry = "_stream_log_delta" /\ pc = "again_same") =>
          (call.second[1].out = <<>> <=> Len(call.full_content) <= call.previous_length)

\* The first call wrote a delta and the second was given the returned length.
C9_Witness ==
    /\ entry = "_stream_log_delta" /\ pc = "again_threaded"
    /\ call.first[1].out # <<>>
    /\ call.previous_length > 0

\* C10: an image in the completed set stays in it, and no later step polls it.
C10_CompletedNeverPolledAgain ==
    [][entry = "wait_for_builds" =>
         \A n \in completed :
             /\ n \in completed'
             /\ ~(IsPoll(last') /\ last'.name = n)]_vars

\* A later sweep has just skipped an image completed earlier.
C10_Witness ==
    /\ entry = "wait_for_builds"
    /\ last.op = "skip"
    /\ last.name \in completed
    /\ Range(image_names) \ completed # {}

\* The exit code of a result is present and zero / present and not zero.
ExitZero(r) == Len(r.exit_code) = 1 /\ r.exit_code[1] = 0

ExitNonZero(r) == Len(r.exit_code) = 1 /\ r.exit_code[1] # 0

\* The positions of a list whose result has a non-zero / a zero exit code, and
\* the j-th such position.
NonZeroAt(rs) == {k \in DOMAIN rs : ExitNonZero(rs[k])}

ZeroAt(rs) == {k \in DOMAIN rs : ExitZero(rs[k])}

Nth(S, j) == CHOOSE k \in S : Cardinality({i \in S : i <= k}) = j

\* The results at a set of positions, in list order.
Picked(rs, S) == [j \in 1..Cardinality(S) |-> rs[Nth(S, j)]]

ReportRan == entry = "report_results" /\ pc \in {"return", "done"}

\* C11: for every BuildResult, succeeded and failed are never both true;
\* succeeded holds exactly when exit_code is 0, failed exactly when exit_code is
\* present and non-zero, and both are false when exit_code is absent, whatever
\* the state label.
C11_SucceededFailedExclusive ==
    entry = "report_results" =>
        \A k \in DOMAIN report.results :
            LET r == report.results[k]
            IN /\ ~(succeeded(r) /\ failed(r))
               /\ succeeded(r) <=> ExitZero(r)
               /\ failed(r) <=> ExitNonZero(r)
               /\ r.exit_code = None => (~succeeded(r) /\ ~failed(r))

\* report_results classified a Terminated result without exit code and a
\* Running result with exit code 1.
C11_Witness ==
    /\ entry = "report_results" /\ pc = "done"
    /\ Len(report.results) = 2
    /\ report.results[1].state = TERMINATED /\ report.results[1].exit_code = None
    /\ report.results[2].state = "Running" /\ report.results[2].exit_code = Some(1)
    /\ Len(report.failed) = 1

\* C12: report_results returns exactly the input results whose exit code is
\* present and non-zero, in input order, whatever the environment.
C12_ReturnsFailedInOrder ==
    (entry = "report_results" /\ pc = "done") =>
        /\ report.returned # None
        /\ report.returned[1] = Picked(report.results, NonZeroAt(report.results))
        /\ \A k \in DOMAIN report.returned[1] :
             report.returned[1][k].exit_code \notin {None, Some(0)}

\* Outside CI, two different failed results were returned in input order.
C12_Witness ==
    /\ entry = "report_results" /\ pc = "done"
    /\ ~report.in_github
    /\ Len(report.results) = 2
    /\ report.results[1].exit_code = Some(2)
    /\ report.results[2].exit_code = Some(1)
    /\ Len(report.returned[1]) = 2

IsOutputCall(c) == c.fn = "write_github_output"

IsAnnotationCall(c) == c.fn = "emit_github_annotation"

IsSummaryCall(c) == c.fn = "write_github_summary"

\* The record write_github_output appends for a call.
OutputRecord(c) == c.key \o <<61>> \o c.value \o <<LF>>

RECURSIVE OutputRecords(_)
OutputRecords(cs) ==
    IF cs = <<>> THEN <<>> ELSE OutputRecord(Head(cs)) \o OutputRecords(Tail(cs))

\* The comma-joined names of the results at a set of positions.
RECURSIVE NamesAt(_, _, _)
NamesAt(rs, S, j) ==
    IF j > Cardinality(S) THEN <<>>
    ELSE (IF j > 1 THEN <<44>> ELSE <<>>) \o Codes(rs[Nth(S, j)].image_name)
         \o NamesAt(rs, S, j + 1)

\* C13: in CI mode the keys written are build_result (failure if a result
\* failed, else success if one succeeded, else unknown), then failed_images iff
\* a result failed, then succeeded_images iff one succeeded, each with the
\* comma-joined names in input order; they are appended to the GITHUB_OUTPUT
\* file when that sink is configured.
C13_BuildResultKeys ==
    (ReportRan /\ report.in_github) =>
        LET rs == report.results
            oc == SelectSeq(calls, IsOutputCall)
            anyFailed == NonZeroAt(rs) # {}
            anySucceeded == ZeroAt(rs) # {}
            keyAt(key) == {k \in DOMAIN oc : oc[k].key = Codes(key)}
        IN /\ keyAt("build_result") = {1}
           /\ oc[1].value = IF anyFailed THEN Codes("failure")
                            ELSE IF anySucceeded THEN Codes("success")
                            ELSE Codes("unknown")
           /\ Cardinality(keyAt("failed_images")) = IF anyFailed THEN 1 ELSE 0
           /\ Cardinality(keyAt("succeeded_images")) = IF anySucceeded THEN 1 ELSE 0
           /\ Len(oc) = 1 + (IF anyFailed THEN 1 ELSE 0) + (IF anySucceeded THEN 1 ELSE 0)
           /\ \A k \in keyAt("failed_images") :
                oc[k].value = NamesAt(rs, NonZeroAt(rs), 1)
           /\ \A k \in keyAt("succeeded_images") :
                oc[k].value = NamesAt(rs, ZeroAt(rs), 1)
           /\ \A j, k \in DOMAIN oc :
                (oc[j].key = Codes("failed_images")
                   /\ oc[k].key = Codes("succeeded_images")) => j < k
           /\ Truthy(env.GITHUB_OUTPUT) =>
                files[env.GITHUB_OUTPUT[1]] =
                    UsedFiles[env.GITHUB_OUTPUT[1]] \o OutputRecords(oc)

\* In CI with the sink configured, a succeeded result listed before a failed
\* one: build_result=failure and both image keys are in the file.
C13_Witness ==
    /\ ReportRan /\ report.in_github
    /\ env.GITHUB_OUTPUT = Some("out.txt")
    /\ Len(report.results) = 2
    /\ report.results[1].exit_code = Some(0)
    /\ report.results[2].exit_code = Some(1)
    /\ Len(files["out.txt"]) > Len(UsedFiles["out.txt"])
    /\ Len(SelectSeq(calls, IsOutputCall)) = 3

\* text ends with suffix.
EndsWith(text, suffix) ==
    /\ Len(text) >= Len(suffix)
    /\ SubSeq(text, Len(text) - Len(suffix) + 1, Len(text)) = suffix

StartsWith(text, prefix) ==
    /\ Len(text) >= Len(prefix)
    /\ SubSeq(text, 1, Len(prefix)) = prefix

\* C14: in CI mode report_results asks for exactly one error annotation per
\* result with a non-zero exit code and one notice annotation per result with
\* exit code 0, none for a result without exit code; the error message of a
\* result with an empty logs_tail ends with '(no logs available)', that of any
\* other with its logs_tail.
C14_OneAnnotationPerResult ==
    (ReportRan /\ report.in_github) =>
        LET rs == report.results
            ac == SelectSeq(calls, IsAnnotationCall)
            nf == Cardinality(NonZeroAt(rs))
            ns == Cardinality(ZeroAt(rs))
        IN /\ Len(ac) = nf + ns
           /\ Len(stdout) = nf + ns
           /\ \A j \in 1..nf :
                LET r == rs[Nth(NonZeroAt(rs), j)]
                IN /\ ac[j].level = Codes("error")
                   /\ ac[j].title = Some(Codes(r.image_name) \o Codes(" build failed"))
                   /\ StartsWith(stdout[j], Codes("::") \o Codes("error"))
                   /\ IF r.logs_tail = <<>>
                      THEN EndsWith(ac[j].message,
                                    <<58, LF>> \o Codes("(no logs available)"))
                      ELSE EndsWith(ac[j].message, <<58, LF>> \o r.logs_tail)
           /\ \A j \in 1..ns :
                LET r == rs[Nth(ZeroAt(rs), j)]
                IN /\ ac[nf + j].level = Codes("notice")
                   /\ ac[nf + j].title =
                        Some(Codes(r.image_name) \o Codes(" build succeeded"))
                   /\ StartsWith(stdout[nf + j], Codes("::") \o Codes("notice"))

\* In CI, a failed result without captured logs and a result without exit
\* code: one annotation, an error with the placeholder.
C14_Witness ==
    /\ ReportRan /\ report.in_github
    /\ Len(report.results) = 2
    /\ report.results[1].exit_code = Some(2) /\ report.results[1].logs_tail = <<>>
    /\ report.results[2].exit_code = None
    /\ Len(stdout) = 1

\* C16: when neither GITHUB_ACTIONS nor GITHUB_ACTION has a non-empty value,
\* report_results asks for no annotation, summary or key, prints nothing and
\* leaves the files as they were, even with the sinks configured; in both
\* modes the console gets the heading, one line per result naming it in list
\* order, and the closing rule.
C16_NothingWrittenOutsideCI ==
    entry = "report_results" =>
        /\ (env.GITHUB_ACTIONS \in {None, Some("")}
              /\ env.GITHUB_ACTION \in {None, Some("")}) =>
                (calls = <<>> /\ stdout = <<>> /\ files = UsedFiles)
        /\ ReportRan =>
             /\ Len(console) = Len(report.results) + 5
             /\ \A k \in DOMAIN report.results :
                  LET name == Codes(report.results[k].image_name)
                  IN SubSeq(console[4 + k], 5, 4 + Len(name)) = name

\* GITHUB_ACTIONS is set but empty, both sinks are configured, and a failed
\* result was reported on the console only.
C16_Witness ==
    /\ entry = "report_results" /\ pc = "done"
    /\ env.GITHUB_ACTIONS = Some("") /\ env.GITHUB_ACTION = None
    /\ env.GITHUB_OUTPUT = Some("out.txt")
    /\ env.GITHUB_STEP_SUMMARY = Some("summary.md")
    /\ Len(report.results) = 1 /\ report.results[1].exit_code = Some(1)
    /\ Len(console) = 6

\* The part of a printed annotation after "::<level><title part>::", given the
\* call that printed it.
PrintedPrefix(c) ==
    Codes("::") \o c.level
    \o (IF c.title # None /\ c.title[1] # <<>> THEN Codes(" title=") \o c.title[1] ELSE <<>>)
    \o Codes("::")

\* Where the k-th character of a message lands once every newline before it
\* has become three characters.
EscapedPos(message, k) == k + 2 * CountLF(SubSeq(message, 1, k - 1))

\* safe is message with every newline replaced by %0A and nothing else changed.
IsEscaped(message, safe) ==
    /\ Len(safe) = Len(message) + 2 * CountLF(message)
    /\ \A k \in DOMAIN message :
         LET p == EscapedPos(message, k)
         IN IF message[k] = LF
            THEN SubSeq(safe, p, p + 2) = <<37, 48, 65>>
            ELSE safe[p] = message[k]

\* printed is one physical line: its only newline is its last character.
IsOneLine(printed) ==
    /\ printed # <<>>
    /\ printed[Len(printed)] = LF
    /\ CountLF(printed) = 1

\* printed has the form ::<level><optional title>::<escaped message> + newline.
HasAnnotationForm(c, printed) ==
    /\ StartsWith(printed, PrintedPrefix(c))
    /\ printed[Len(printed)] = LF
    /\ IsEscaped(c.message,
                 SubSeq(printed, Len(PrintedPrefix(c)) + 1, Len(printed) - 1))

SinkOf(c) ==
    IF IsOutputCall(c) THEN env.GITHUB_OUTPUT ELSE env.GITHUB_STEP_SUMMARY

\* The record the call just made is to append.
RecordOf(c) ==
    IF IsOutputCall(c) THEN c.key \o <<61>> \o c.value \o <<LF>>
    ELSE c.markdown \o <<LF>>

\* C17 as stated: a call does nothing when its sink setting is absent, and
\* when the setting is set it appends exactly one record to the file named.
C17_AppendsWheneverSet ==
    [][(entry = "writers" /\ Len(calls') = Len(calls) + 1) =>
          LET c == calls'[Len(calls')]
          IN IF SinkOf(c) = None
             THEN files' = files
             ELSE \E p \in Paths :
                    /\ SinkOf(c) = Some(p)
                    /\ files'[p] = files[p] \o RecordOf(c)
                    /\ \A q \in Paths \ {p} : files'[q] = files[q]]_vars

\* C17 amended: a call does nothing when its sink setting is absent or empty;
\* when the setting names a file the call appends exactly one record after
\* the file's content and touches no other file.
C17_AppendsWhenSetNonEmpty ==
    [][(entry = "writers" /\ Len(calls') = Len(calls) + 1) =>
          LET c == calls'[Len(calls')]
          IN IF SinkOf(c) \in {None, Some("")}
             THEN files' = files
             ELSE \E p \in Paths :
                    /\ SinkOf(c) = Some(p)
                    /\ files'[p] = files[p] \o RecordOf(c)
                    /\ Len(files'[p]) > Len(files[p])
                    /\ \A q \in Paths \ {p} : files'[q] = files[q]]_vars

\* Two keys were written after the record the file already held.
C17_Witness ==
    /\ entry = "writers"
    /\ env.GITHUB_OUTPUT = Some("out.txt")
    /\ Len(calls) = 2 /\ IsOutputCall(calls[1]) /\ IsOutputCall(calls[2])
    /\ calls[1].value # calls[2].value
    /\ files["out.txt"] = UsedFiles["out.txt"] \o RecordOf(calls[1]) \o RecordOf(calls[2])

\* C18: follow_image_logs returns only from a poll that observed Terminated,
\* with that poll's exit code, or 0 if it is absent; any other poll and any
\* failed poll is followed by a sleep, and a sleep by the next poll.
C18_ReturnsExitCodeAtTerminated ==
    /\ [][entry = "follow_image_logs" =>
            /\ (pc # "done" /\ pc' = "done") =>
                 /\ pc = "poll" /\ last'.op = "poll_ok"
                 /\ observed'[1][1] = Some(TERMINATED)
                 /\ exit_status' = IF observed'[1][2] = None THEN Some(0)
                                   ELSE observed'[1][2]
            /\ (pc = "poll" /\ last'.op = "poll_ok"
                  /\ observed'[1][1] # Some(TERMINATED)) => pc' = "sleep"
            /\ (pc = "poll" /\ last'.op = "poll_raise") => pc' = "sleep"
            /\ pc = "sleep" => pc' = "poll"]_vars
    /\ [](entry = "follow_image_logs" => (pc = "done" <=> exit_status # None))

\* The follower returned 0 for a job Terminated without exit code, after
\* earlier polls had streamed its log.
C18_Witness ==
    /\ entry = "follow_image_logs" /\ pc = "done"
    /\ observed = Some(<<Some(TERMINATED), None, None>>)
    /\ exit_status = Some(0)
    /\ log_offset >= 2

\* C19: _get_container_state gives (None, None, None) for a group without
\* containers, (provisioning state, None, None) when the first container has
\* no instance view or no current state, and otherwise the state, exit code
\* and detail of the first container's current state; an exit code or detail
\* is given only with a current state.
C19_StateOfFirstContainer ==
    (entry = "poll_build" /\ poll_call.st # None) =>
        LET cg == poll_call.group[1]
            st == poll_call.st[1]
            detailed == /\ cg.containers # <<>>
                        /\ cg.containers[1].instance_view # None
                        /\ cg.containers[1].instance_view[1].current_state # None
        IN /\ cg.containers = <<>> => st = <<None, None, None>>
           /\ (cg.containers # <<>> /\ ~detailed) =>
                st = <<cg.provisioning_state, None, None>>
           /\ detailed =>
                LET current == cg.containers[1].instance_view[1].current_state[1]
                IN st = <<current.state, current.exit_code, current.detail_status>>
           /\ (st[2] # None \/ st[3] # None) => detailed

\* A group of two containers, the first Running and the second Terminated.
C19_Witness ==
    /\ entry = "poll_build" /\ pc = "done"
    /\ Len(poll_call.group[1].containers) = 2
    /\ poll_call.st = Some(<<Some("Running"), None, None>>)

\* C20: a failure of the log client does not make poll_build raise: whenever
\* the status call succeeds poll_build returns, and then the logs and
\* logs_tail are empty and the result carries the state (or its fallbacks)
\* and the exit code of the status call.
C20_LogFailureGivesEmptyLogs ==
    entry = "poll_build" =>
        /\ pc = "raised" => poll_call.group = None
        /\ (poll_call.logresp[1].raises /\ poll_call.logs # None) =>
             poll_call.logs = Some(<<>>)
        /\ (poll_call.logresp[1].raises /\ pc = "done") =>
             LET result == poll_call.outcome[1][1]
                 cg == poll_call.group[1]
                 st == poll_call.st[1]
             IN /\ poll_call.outcome[1][2] = <<>>
                /\ result.logs_tail = <<>>
                /\ result.exit_code = st[2]
                /\ result.image_name = poll_call.image_name
                /\ result.state =
                     IF st[1] \notin {None, Some("")} THEN st[1][1]
                     ELSE IF cg.provisioning_state \notin {None, Some("")}
                          THEN cg.provisioning_state[1] ELSE "Unknown"

\* The log client failed and poll_build returned a Terminated result with
\* exit code 1.
C20_Witness ==
    /\ entry = "poll_build" /\ pc = "done"
    /\ poll_call.logresp[1].raises
    /\ poll_call.outcome[1][1].state = TERMINATED
    /\ poll_call.outcome[1][1].exit_code = Some(1)
    /\ poll_call.outcome[1][2] = <<>>

\* The lines of a text as a reader counts them: the pieces between newlines,
\* a final newline ending the last line.
RECURSIVE PlainLinesRec(_, _, _)
PlainLinesRec(text, cur, acc) ==
    IF text = <<>> THEN (IF cur = <<>> THEN acc ELSE Append(acc, cur))
    ELSE IF Head(text) = LF THEN PlainLinesRec(Tail(text), <<>>, Append(acc, cur))
    ELSE PlainLinesRec(Tail(text), Append(cur, Head(text)), acc)

PlainLines(text) == PlainLinesRec(text, <<>>, <<>>)

\* text without its leading and trailing blanks and newlines.
Trimmed(text) ==
    LET keep == {k \in DOMAIN text : text[k] \notin {LF, 32}}
    IN IF keep = {} THEN <<>>
       ELSE LET lo == CHOOSE k \in keep : \A j \in keep : k <= j
                hi == CHOOSE k \in keep : \A j \in keep : k >= j
            IN SubSeq(text, lo, hi)

TailCalled == entry = "_tail_lines" /\ pc = "called"

Monitoring == entry = "wait_for_builds"

\* The comparison the while guard makes, as the claims state it.
SizesDiffer == Cardinality(completed) < Len(image_names)

\* C22: wait_for_builds called with an empty list returns an empty list at
\* once: the loop guard is false at the first test, nothing is polled, no
\* sweep and no sleep happens, and the returned list is built without a
\* KeyError.
C22_EmptyListReturnsAtOnce ==
    (Monitoring /\ image_names = <<>>) =>
        /\ pc \in {"while", "done"}
        /\ last.op \in {"init", "return"}
        /\ pc = "while" => (~SizesDiffer /\ last.op = "init")
        /\ pc = "done" => (returned = <<>> /\ last.op = "return")
        /\ results = <<>> /\ completed = {}
        /\ \A n \in Names : sweep_polls[n] = 0 /\ written[n] = <<>>

\* The empty list was returned.
C22_Witness ==
    /\ Monitoring /\ image_names = <<>>
    /\ pc = "done" /\ returned = <<>> /\ last.op = "return"

\* C24: the guard compares sizes. For distinct names the sizes are equal
\* exactly when every name is completed; with a repeated name the guard is
\* always true, the monitor never returns, and once every distinct name is
\* completed its sweeps only skip and sleep.
C24_RepeatedNameNeverReturns ==
    Monitoring =>
        /\ Distinct(image_names) =>
             (~SizesDiffer <=> \A k \in DOMAIN image_names : image_names[k] \in completed)
        /\ ~Distinct(image_names) =>
             /\ SizesDiffer
             /\ pc \in {"while", "for"}
             /\ last.op \notin {"return", "nosleep"}
             /\ Range(image_names) \subseteq completed =>
                  /\ AtImage => Skips(image_names[idx])
                  /\ pc = "while" /\ last.op # "init" => last.op = "sleep"

\* Both entries of the list name the same job, it is completed, and the
\* monitor has slept again after a sweep that polled nothing.
C24_Witness ==
    /\ Monitoring /\ image_names = <<"img1", "img1">>
    /\ completed = {"img1"}
    /\ pc = "while" /\ last.op = "sleep"
    /\ sweep_polls["img1"] = 0
    /\ before["img1"] = Visited

\* C25: completed is a subset of the keys of results, every completed job's
\* stored result has state 'Terminated', and so the returned list is built
\* without a missing key.
C25_CompletedHaveTerminatedResults ==
    Monitoring =>
        /\ completed \subseteq DOMAIN results
        /\ \A n \in completed : results[n].state = TERMINATED
        /\ (pc = "while" /\ ~SizesDiffer) => Range(image_names) \subseteq DOMAIN results
        /\ pc # "raised"
        /\ pc = "done" => Len(returned) = Len(image_names)

\* Two jobs completed and the list was returned.
C25_Witness ==
    /\ Monitoring /\ pc = "done"
    /\ completed = {"img1", "img2"}
    /\ Len(returned) = 2

\* result is what poll_build returns for image n on some answer of the two
\* clients, with portal_url set to url.
Storable(result, n, url) ==
    /\ \E cg \in ContainerGroups :
         [result EXCEPT !.logs_tail = <<>>] =
             [PollBuild(n, cg, [raises |-> TRUE, content |-> None])[1]
                 EXCEPT !.portal_url = url]
    /\ \E len \in 0..MaxLog :
         result.logs_tail = TailLines(LogText(n, len), LOG_TAIL_LINES)

\* C30: a successful poll of a job stores what poll_build returned with
\* portal_url set to the caller's URL for the job or '', and touches no other
\* job's result; no other step changes results; a completed job's result is
\* never replaced; the returned results are the stored ones of the polls that
\* observed 'Terminated'.
C30_StoredResultIsLatestPoll ==
    [][Monitoring =>
        /\ last'.op = "poll_ok" =>
             LET n == last'.name
                 url == IF n \in DOMAIN portal_urls THEN portal_urls[n] ELSE ""
             IN /\ n \notin completed
                /\ DOMAIN results' = DOMAIN results \cup {n}
                /\ Storable(results'[n], n, url)
                /\ \A m \in DOMAIN results \ {n} : results'[m] = results[m]
                /\ n \in completed' <=> results'[n].state = TERMINATED
        /\ last'.op # "poll_ok" => results' = results
        /\ \A n \in completed : n \in completed' /\ results'[n] = results[n]
        /\ pc' = "done" =>
             \A k \in DOMAIN image_names :
                 /\ returned'[k] = results[image_names[k]]
                 /\ returned'[k].state = TERMINATED
    ]_vars

\* A job with a caller-supplied URL and a job without one were returned.
C30_Witness ==
    /\ Monitoring /\ pc = "done"
    /\ image_names = <<"img1", "img2">>
    /\ returned[1].portal_url = "https://portal/img1"
    /\ returned[2].portal_url = ""

\* part occurs in text.
Contains(text, part) ==
    \E k \in 0..(Len(text) - Len(part)) : SubSeq(text, k + 1, k + Len(part)) = part

Following == entry = "follow_image_logs"

\* C26: the completion notice of wait_for_builds says FAILED only for a
\* result that satisfies failed, and succeeded only for one that satisfies
\* succeeded (the k-th notice follows the line 'Waiting for builds to
\* complete...' and is about the k-th completed job).
C26_NoticeMatchesPredicates ==
    Monitoring =>
        \A k \in DOMAIN completion_order :
            LET notice == console[k + 1]
                result == results[completion_order[k]]
            IN /\ Contains(notice, Codes("FAILED (exit code ")) => failed(result)
               /\ Contains(notice, Codes("succeeded")) => succeeded(result)

\* C27: the notice follow_image_logs prints agrees with what it returns:
\* 'build succeeded' exactly when it returns 0, 'build FAILED' exactly when it
\* returns a non-zero code.
C27_NoticeAgreesWithReturn ==
    (Following /\ pc = "done") =>
        LET notice == console[3]
        IN /\ Contains(notice, Codes(": build succeeded")) <=> exit_status = Some(0)
           /\ Contains(notice, Codes(": build FAILED (exit code ")) <=>
                (exit_status # None /\ exit_status # Some(0))

\* C28: wait_for_builds prints group markers only with more than one job in
\* CI mode, and then a step prints exactly one ::group:: / ::endgroup:: pair
\* when it writes a non-empty log delta and none otherwise.
C28_GroupsOnlyWhenGrouped ==
    [][Monitoring =>
        /\ marks' # <<>> => (in_github /\ Len(image_names) > 1)
        /\ (in_github /\ Len(image_names) > 1) =>
             IF last'.op = "poll_ok" /\ written' # written
             THEN marks' = <<GroupMarker(last'.name), EndGroupMarker>>
             ELSE marks' = <<>>
    ]_vars

\* C29: in one session the markers alternate, ::group:: first: the number of
\* open groups is 0 or 1 after every marker printed, and 0 once the function
\* has returned.
C29_MarkersAlternate ==
    Monitoring =>
        LET start == open_groups - Net(marks)
        IN /\ start \in {0, 1}
           /\ \A k \in 1..Len(marks) : start + Net(SubSeq(marks, 1, k)) \in {0, 1}
           /\ pc \in {"done", "raised"} => open_groups = 0

\* C23: on the same responses for one job the follower and the monitor of
\* the one-element list poll equally often, write the same log text and stop
\* at the same poll, and the follower returns the exit code of the monitor's
\* result with an absent code as 0.
C23_FollowerMatchesMonitor ==
    entry = "wait_for_builds, follow_image_logs" =>
        LET m == call.monitor
            f == call.follower
        IN /\ m.polls = f.polls
           /\ m.out = f.out
           /\ m.returned = None <=> f.returned = None
           /\ m.returned # None =>
                LET exit_code == m.returned[1][1].exit_code
                IN f.returned[1] = (IF exit_code = None THEN 0 ELSE exit_code[1])

Validating == entry = "templates_version_validator"

\* The template sources set among the five options.
SourcesSet(ns) ==
    CountSet(<<ns.local_templates, IsSet(ns.template_file), IsSet(ns.version),
               ns.prerelease, IsSet(ns.templates_url)>>)

\* C36: templates_version_validator raises MutuallyExclusiveArgumentError
\* whenever more than one of the five template sources is set (so whenever
\* local_templates is set with any one of the others), and makes no remote
\* lookup before that error.  The options are read in the state before the
\* checks, whose outcome is in the state after them.
C36_RaisesOnAnyTwoSources ==
    [][(Validating /\ pc = "start") =>
        /\ SourcesSet(call.ns) > 1 =>
             (pc' = "raised" /\ call'.error = Some("MutuallyExclusiveArgumentError"))
        /\ call'.error = Some("MutuallyExclusiveArgumentError") => call'.lookups = 0
    ]_vars

Asking == entry = "get_release_asset"

\* A status-200 response whose body is not valid JSON.
InvalidJson(answer) ==
    answer.raises = None /\ answer.status_code = 200 /\ ~answer.valid_json

\* C37 as stated: at most TRIES requests; the call ends by returning a value
\* or raising ClientRequestError; every request but the last was answered
\* with status 200 and an invalid JSON body; a non-200 status and a
\* connection or HTTP error raise at once; the third invalid body raises.
C37_RetriesOnlyOnInvalidJson ==
    Asking =>
        LET n == Len(call.answers)
        IN /\ n <= TRIES
           /\ pc = "returned" => call.returned # None
           /\ pc = "raised" => call.error = Some("ClientRequestError")
           /\ \A k \in 1..(n - 1) : InvalidJson(call.answers[k])
           /\ (n > 0 /\ pc = "for") => InvalidJson(call.answers[n])
           /\ (n > 0 /\ (call.answers[n].raises \in {Some("ConnectionError"), Some("HTTPError")}
                         \/ (call.answers[n].raises = None
                             /\ call.answers[n].status_code # 200))) =>
                (pc = "raised" /\ call.error = Some("ClientRequestError"))
           /\ (n = TRIES /\ InvalidJson(call.answers[n]) /\ call.to_json) =>
                (pc = "raised" /\ call.error = Some("ClientRequestError"))

\* The try body raised a ValueError on the answer: response.json() on an
\* invalid body, or requests.get itself.
GaveValueError(answer) ==
    answer.raises = Some("ValueError") \/ (call.to_json /\ InvalidJson(answer))

\* C37 amended: at most TRIES requests; the call ends by returning a value
\* (never None), by raising ClientRequestError, or by letting through an
\* exception of requests.get that is neither a ConnectionError, an HTTPError
\* nor a ValueError; a further request is made only after a ValueError (a
\* status-200 body that is not valid JSON when to_json is set, or a ValueError
\* of requests.get), each after one sleep; a non-200 status and a connection
\* or HTTP error raise ClientRequestError at once; the third consecutive
\* ValueError raises ClientRequestError.
C37_RetriesOnlyOnValueError ==
    Asking =>
        LET n == Len(call.answers)
        IN /\ n <= TRIES
           /\ pc = "returned" =>
                (call.returned # None /\ call.answers[n].raises = None
                   /\ call.answers[n].status_code = 200)
           /\ pc = "raised" =>
                \/ call.error = Some("ClientRequestError")
                \/ (call.error = call.answers[n].raises
                      /\ call.error \notin {None, Some("ConnectionError"),
                                            Some("HTTPError"), Some("ValueError")})
           /\ \A k \in 1..(n - 1) : GaveValueError(call.answers[k])
           /\ (n > 0 /\ pc = "for") => GaveValueError(call.answers[n])
           /\ call.sleeps = (IF pc = "for" THEN n ELSE n - 1)
           /\ (n > 0 /\ (call.answers[n].raises \in {Some("ConnectionError"), Some("HTTPError")}
                         \/ (call.answers[n].raises = None
                             /\ call.answers[n].status_code # 200))) =>
                (pc = "raised" /\ call.error = Some("ClientRequestError"))
           /\ (n = TRIES /\ GaveValueError(call.answers[n])) =>
                (pc = "raised" /\ call.error = Some("ClientRequestError"))

\* The third invalid-JSON body in a row raised ClientRequestError.
C37_Witness ==
    /\ Asking /\ pc = "raised"
    /\ call.to_json
    /\ Len(call.answers) = TRIES
    /\ \A k \in 1..TRIES : InvalidJson(call.answers[k])
    /\ call.error = Some("ClientRequestError")
    /\ call.sleeps = TRIES - 1

\* A step of the monitor that polled the image named in last.
Polled(op) == op \in {"poll_ok", "poll_raise"}

\* C31: the console holds exactly one completion notice per completed job,
\* in completion order, after the line printed on entry; a notice is added
\* only by the poll that first stores a 'Terminated' result for a job not yet
\* completed, in the step that has streamed that poll's log, and every such
\* poll adds one.
C31_OneNoticePerCompletedJob ==
    /\ [](Monitoring =>
            /\ Len(console) = 1 + Len(completion_order)
            /\ Distinct(completion_order)
            /\ Range(completion_order) = completed
            /\ \A k \in DOMAIN completion_order :
                 /\ StartsWith(console[k + 1],
                               Codes(completion_order[k]) \o Codes(": build "))
                 /\ results[completion_order[k]].state = TERMINATED)
    /\ [][Monitoring =>
            LET n == last'.name
            IN /\ console' # console =>
                    /\ last'.op = "poll_ok"
                    /\ n \notin completed /\ completed' = completed \cup {n}
                    /\ Len(console') = Len(console) + 1
                    /\ SubSeq(console', 1, Len(console)) = console
                    /\ log_offsets'[n] >= Len(fetched_logs'[1])
                    /\ Len(written'[n]) >= Len(fetched_logs'[1])
               /\ (last'.op = "poll_ok" /\ results'[n].state = TERMINATED) =>
                    console' # console
       ]_vars

\* The second job of the list completed first, the first one in a later
\* sweep: two notices in that order.
C31_Witness ==
    /\ Monitoring /\ pc = "done"
    /\ image_names = <<"img1", "img2">>
    /\ completion_order = <<"img2", "img1">>
    /\ Len(console) = 3
    /\ StartsWith(console[2], Codes("img2"))
    /\ StartsWith(console[3], Codes("img1"))

\* The diagnostic the claims expect after a sweep: the identifiers of the
\* list that are not completed, in list order.
ExpectedDiagnostic ==
    LET waiting == SelectSeq(image_names, LAMBDA n : n \notin completed)
    IN Codes("Waiting for ") \o StrNat(Len(waiting)) \o Codes(" build(s): ")
       \o Join(Codes(", "), [k \in DOMAIN waiting |-> Codes(waiting[k])])

SomeJobPending == \E k \in DOMAIN image_names : image_names[k] \notin completed

\* C32 as stated: after a sweep that leaves a job non-terminal the monitor
\* logs the diagnostic listing the non-terminal identifiers in caller order
\* and sleeps once; after the sweep in which the last job became terminal
\* it logs no diagnostic and does not sleep.
C32_DiagnosticIffJobPending ==
    [][(Monitoring /\ AtSweepEnd) =>
        IF SomeJobPending
        THEN info' = <<ExpectedDiagnostic>> /\ last'.op = "sleep"
        ELSE info' = <<>> /\ last'.op = "nosleep"
    ]_vars

\* C32 amended: the test made after a sweep is the loop guard's (sizes of the
\* completed set and of the list).  For pairwise-distinct identifiers the
\* statement above holds, every other step logs no diagnostic and does not
\* sleep, a sleep is followed by the next sweep and its absence by the
\* return.  With a repeated identifier every sweep is followed by the
\* diagnostic of the pending entries (none once all are terminal) and a sleep.
C32_DiagnosticIffGuardHolds ==
    [][Monitoring =>
        /\ AtSweepEnd =>
             IF Distinct(image_names)
             THEN IF SomeJobPending
                  THEN info' = <<ExpectedDiagnostic>> /\ last'.op = "sleep"
                  ELSE info' = <<>> /\ last'.op = "nosleep"
             ELSE info' = <<ExpectedDiagnostic>> /\ last'.op = "sleep"
        /\ ~AtSweepEnd =>
             /\ last'.op \notin {"sleep", "nosleep"}
             /\ info' # <<>> => last'.op = "poll_raise"
        /\ last.op = "sleep" => last'.op = "sweep"
        /\ last.op = "nosleep" => last'.op = "return"
    ]_vars

\* A sweep left the second job running: the diagnostic names it alone.
C32_Witness ==
    /\ Monitoring /\ image_names = <<"img1", "img2">>
    /\ completed = {"img1"}
    /\ last.op = "sleep"
    /\ info = <<Codes("Waiting for ") \o <<49>> \o Codes(" build(s): ") \o Codes("img2")>>

\* The entries of the list before position k that name n.
EntriesBefore(n, k) == {j \in DOMAIN image_names : j < k /\ image_names[j] = n}

\* C33 as stated: in a sweep every job that is not completed is polled
\* exactly once, one job after the other in list order.
C33_EachJobPolledOncePerSweep ==
    /\ [](Monitoring /\ pc = "for" =>
            \A n \in Range(image_names) :
                /\ sweep_polls[n] <= 1
                /\ (EntriesBefore(n, idx) # {} /\ n \notin completed) => sweep_polls[n] = 1)
    /\ [][(Monitoring /\ pc = "for" /\ pc' = "for") =>
            /\ idx' = idx + 1
            /\ last'.name = image_names[idx]
            /\ Polled(last'.op) <=> image_names[idx] \notin completed
       ]_vars

\* C33 amended: within a sweep the entries of the list are visited in order,
\* one per step; an entry is polled when it is visited unless its job is
\* completed by then, so a running job is polled once for every entry that
\* names it (exactly once when it is listed once); a poll touches the stored
\* result, the log offset and the written log of its own job only.
C33_EachEntryPolledOncePerSweep ==
    /\ [](Monitoring /\ pc = "for" =>
            \A n \in Range(image_names) :
                /\ sweep_polls[n] <= Cardinality(EntriesBefore(n, idx))
                /\ (EntriesBefore(n, idx) # {} /\ n \notin completed) =>
                     sweep_polls[n] = Cardinality(EntriesBefore(n, idx))
                /\ ListedOnce(n) => sweep_polls[n] <= 1)
    /\ [][(Monitoring /\ pc = "for" /\ pc' = "for") =>
            /\ idx' = idx + 1
            /\ last'.name = image_names[idx]
            /\ Polled(last'.op) <=> image_names[idx] \notin completed
            /\ \A m \in Range(image_names) \ {image_names[idx]} :
                 /\ log_offsets'[m] = log_offsets[m]
                 /\ written'[m] = written[m]
                 /\ sweep_polls'[m] = sweep_polls[m]
                 /\ m \in DOMAIN results' <=> m \in DOMAIN results
                 /\ m \in DOMAIN results => results'[m] = results[m]
       ]_vars

\* A sweep over two running jobs has polled each once, the first before the
\* second, and both wrote their logs.
C33_Witness ==
    /\ Monitoring /\ AtSweepEnd
    /\ image_names = <<"img2", "img1">>
    /\ completed = {}
    /\ sweep_polls["img1"] = 1 /\ sweep_polls["img2"] = 1
    /\ last = Event("poll_ok", "img1")
    /\ written["img1"] # <<>> /\ written["img2"] # <<>>

\* The log fetch of the follower's latest poll failed.
LogFetchFailed(answer) == answer # None /\ answer[1].raises

\* C34 as stated: an iteration of follow_image_logs in which the status
\* fetch or the log fetch raised does not return, leaves the log offset as it
\* was, and is followed by one sleep and the next poll.
C34_NoReturnAfterAnyFailure ==
    [][Following =>
        /\ (pc = "poll" /\ (last'.op = "poll_raise" \/ LogFetchFailed(fetched'))) =>
             /\ pc' = "sleep"
             /\ exit_status' = None
             /\ log_offset' = log_offset
        /\ pc = "sleep" => (pc' = "poll" /\ last'.op = "sleep")
    ]_vars

\* C34 amended: an exception of the try body is swallowed, nothing is
\* returned, the log offset is kept, one sleep and the next poll follow.  A
\* failure of the log fetch does not reach the try statement: the iteration
\* goes on with empty logs, writes nothing, keeps the offset, and returns if
\* the state is 'Terminated' and sleeps otherwise.
C34_SwallowsTryFailures ==
    [][Following =>
        /\ (pc = "poll" /\ last'.op = "poll_raise") =>
             /\ pc' = "sleep"
             /\ exit_status' = None
             /\ log_offset' = log_offset
        /\ (pc = "poll" /\ last'.op = "poll_ok" /\ LogFetchFailed(fetched')) =>
             /\ log_offset' = log_offset
             /\ written' = written
             /\ pc' = IF observed'[1][1] = Some(TERMINATED) THEN "done" ELSE "sleep"
        /\ pc = "sleep" => (pc' = "poll" /\ last'.op = "sleep" /\ log_offset' = log_offset)
    ]_vars

\* The follower had streamed two characters when a poll raised: it is about
\* to sleep with its offset kept.
C34_Witness ==
    /\ Following /\ pc = "sleep"
    /\ last = Event("poll_raise", image_name)
    /\ log_offset = 2
    /\ exit_status = None

\* The tail a reader expects of a log of at most LOG_TAIL_LINES lines: the
\* text without the blanks and newlines around it.
WholeTail(text) == Trimmed(text)

\* C35: the poll that completes a job stores the tail of the log text that
\* very poll fetched, empty when its fetch gave nothing, whatever earlier
\* polls had fetched and streamed; the returned result of each job carries
\* that tail.
C35_TailOfTheTerminatingPoll ==
    [][Monitoring =>
        /\ last'.op = "poll_ok" =>
             LET n == last'.name
             IN /\ fetched_logs' # None
                /\ results'[n].logs_tail = WholeTail(fetched_logs'[1])
                /\ fetched_logs'[1] = <<>> => results'[n].logs_tail = <<>>
        /\ \A n \in completed : results'[n].logs_tail = results[n].logs_tail
        /\ pc' = "done" =>
             \A k \in DOMAIN image_names :
                 returned'[k].logs_tail = results[image_names[k]].logs_tail
    ]_vars

\* A job whose log had been fetched and streamed was returned with an empty
\* logs_tail.
C35_Witness ==
    /\ Monitoring /\ pc = "done"
    /\ image_names = <<"img1">>
    /\ written["img1"] # <<>>
    /\ longest["img1"] = MaxLog
    /\ returned[1].logs_tail = <<>>

====
